---- MODULE Spec2Model ----
(***************************************************************************)
(* A model of chotion's collaborative synchronisation subsystem:           *)
(*   - the Convex tables documents, documentMembers, documentUpdates and   *)
(*     documentPresence (convex/schema.ts) and the handlers of             *)
(*     convex/docs.ts, convex/members.ts, convex/collab.ts and             *)
(*     convex/presence.ts over them;                                       *)
(*   - the access guard canView / canEdit;                                 *)
(*   - submitUpdate calls in flight: a Convex mutation runs as one         *)
(*     serializable transaction, so a call is issued, later its handler    *)
(*     runs in one step, later the caller sees the result.                 *)
(*   - the Sync Client of components/editor/CollabEditor.tsx: the Y.Doc,   *)
(*     the watermark afterSeq, the apply effect and the debounced flush    *)
(*     of local updates.                                                   *)
(* A handler is a pair: <Name>Code, the ConvexError it throws (Ok when it  *)
(* returns), and <Name>, what it does to the tables.  A handler that       *)
(* throws leaves the tables as they were.  Row fields no handler reads     *)
(* (addedAt, createdAt, image) are left out of the rows.                   *)
(***************************************************************************)
EXTENDS Integers, Sequences, FiniteSets, TLC

(***************************************************************************)
(* Identities and input domains.                                           *)
(***************************************************************************)
Users == {"alice", "bob"}          \* identities the auth provider can return
NoUser == "anonymous"              \* getUser(ctx) = null
Callers == Users \cup {NoUser}
DocIds == {1, 2}                   \* Id<"documents"> values, issued in order
Roles == {"editor", "viewer"}
Visibilities == {"private", "public"}
NoRole == "none"                   \* getMemberRole(...) = null
Null == [null |-> TRUE]            \* a query's null result
Titles == {"Untitled", "Notes"}
Times == 0..1                      \* the values Date.now() takes next to the log

MaxSeq == 2                        \* a document takes at most this many appends
MaxCalls == 2                      \* submitUpdate calls in flight at once

\* ConvexError codes; Ok is a handler that returns
Ok == 0
Unauthenticated == 401
Forbidden == 403
NotFound == 404
BadRequest == 400

\* Presence timeout: users are active if updated within this window (ms)
PRESENCE_TIMEOUT_MS == 30000

\* The period of a session's heartbeat timer (ms)
HEARTBEAT_INTERVAL_MS == 10000

\* The presence clock runs for MaxBeats heartbeat periods
MaxBeats == 7

VARIABLES
    documents,        \* table documents: _id -> row, for the rows that exist
    nextDocId,        \* the next Id<"documents"> ctx.db.insert hands out
    documentMembers,  \* table documentMembers: a set of rows
    documentUpdates,  \* table documentUpdates by its index by_docId_seq:
                      \*   docId -> that document's rows in insertion order
    documentPresence, \* table documentPresence: its rows in insertion order
    now,              \* Date.now()
    calls,            \* submitUpdate calls in flight: slot -> call
    returned,         \* history, per document: <<seq, base>> of every call that returned
    sessions          \* the mounted CollabEditor of each browser session

vars == <<documents, nextDocId, documentMembers, documentUpdates, documentPresence,
          now, calls, returned, sessions>>

dbVars == <<documents, nextDocId, documentMembers, documentUpdates, documentPresence>>

nonDbVars == <<now, calls, returned, sessions>>

(***************************************************************************)
(* Helpers over the tables.                                                *)
(***************************************************************************)
\* ctx.db.get(docId) !== null
DocExists(docId) == docId \in DOMAIN documents

\* getMemberRole: the by_docId_userId row's role, or null
getMemberRole(docId, userId) ==
    LET rows == {m \in documentMembers : m.docId = docId /\ m.userId = userId}
    IN  IF rows = {} THEN NoRole ELSE (CHOOSE m \in rows : TRUE).role

\* canView with only editors counted as members
canView_EditorsOnly(doc, userId) ==
    IF doc.visibility = "public" THEN TRUE
    ELSE IF userId = NoUser THEN FALSE
    ELSE IF doc.ownerId = userId THEN TRUE
    ELSE getMemberRole(doc._id, userId) = "editor"

\* canView with the sign-in test made before the visibility test
canView_SignedInFirst(doc, userId) ==
    IF userId = NoUser THEN FALSE
    ELSE IF doc.visibility = "public" THEN TRUE
    ELSE IF doc.ownerId = userId THEN TRUE
    ELSE getMemberRole(doc._id, userId) # NoRole

\* canView without the owner test: a private document is seen by its members only
canView_MembersOnly(doc, userId) ==
    IF doc.visibility = "public" THEN TRUE
    ELSE IF userId = NoUser THEN FALSE
    ELSE getMemberRole(doc._id, userId) # NoRole

\* canView(ctx, doc, userId)
canView(doc, userId) ==
    IF doc.visibility = "public" THEN TRUE
    ELSE IF userId = NoUser THEN FALSE
    ELSE IF doc.ownerId = userId THEN TRUE
    ELSE getMemberRole(doc._id, userId) # NoRole

\* canEdit with any membership row granting edit
canEdit_AnyRole(doc, userId) ==
    IF userId = NoUser THEN FALSE
    ELSE IF doc.ownerId = userId THEN TRUE
    ELSE getMemberRole(doc._id, userId) # NoRole

\* canEdit(ctx, doc, userId)
canEdit(doc, userId) ==
    IF userId = NoUser THEN FALSE
    ELSE IF doc.ownerId = userId THEN TRUE
    ELSE getMemberRole(doc._id, userId) = "editor"

\* The seq values of a document's update rows
SeqsOf(docId) == {documentUpdates[docId][i].seq : i \in 1..Len(documentUpdates[docId])}

\* The tables as one value
Db == [documents |-> documents, nextDocId |-> nextDocId,
       documentMembers |-> documentMembers, documentUpdates |-> documentUpdates,
       documentPresence |-> documentPresence]

\* The transaction commits: the tables become db
Commit(db) ==
    /\ documents' = db.documents
    /\ nextDocId' = db.nextDocId
    /\ documentMembers' = db.documentMembers
    /\ documentUpdates' = db.documentUpdates
    /\ documentPresence' = db.documentPresence

\* The owner-only checks passed by everyone who can edit
OwnerOnlyCode_EditorsToo(caller, docId) ==
    IF caller = NoUser THEN Unauthenticated
    ELSE IF ~DocExists(docId) THEN NotFound
    ELSE IF ~canEdit(documents[docId], caller) THEN Forbidden
    ELSE Ok

\* The checks shared by the owner-only mutations: requireUser, the document, the owner
OwnerOnlyCode(caller, docId) ==
    IF caller = NoUser THEN Unauthenticated
    ELSE IF ~DocExists(docId) THEN NotFound
    ELSE IF documents[docId].ownerId # caller THEN Forbidden
    ELSE Ok

(***************************************************************************)
(* convex/docs.ts                                                          *)
(***************************************************************************)
CreateCode(caller) == IF caller = NoUser THEN Unauthenticated ELSE Ok

\* create: any authenticated user becomes owner
Create(caller, title, visibility) ==
    IF CreateCode(caller) # Ok THEN Db
    ELSE [Db EXCEPT
            !.documents = [d \in DOMAIN documents \cup {nextDocId} |->
                             IF d = nextDocId
                             THEN [_id |-> nextDocId, title |-> title, ownerId |-> caller,
                                   visibility |-> visibility, updatedAt |-> now,
                                   lastSeq |-> 0]
                             ELSE documents[d]],
            !.nextDocId = nextDocId + 1]

UpdateTitleCode(caller, docId) == OwnerOnlyCode(caller, docId)

\* updateTitle writing the document anew, without its lastSeq carried over
UpdateTitle_ResetsSeq(caller, docId, title) ==
    IF UpdateTitleCode(caller, docId) # Ok THEN Db
    ELSE [Db EXCEPT !.documents[docId].title = title,
                    !.documents[docId].updatedAt = now,
                    !.documents[docId].lastSeq = 0]

UpdateTitle(caller, docId, title) ==
    IF UpdateTitleCode(caller, docId) # Ok THEN Db
    ELSE [Db EXCEPT !.documents[docId].title = title,
                    !.documents[docId].updatedAt = now]

SetVisibilityCode(caller, docId) == OwnerOnlyCode(caller, docId)

SetVisibility(caller, docId, visibility) ==
    IF SetVisibilityCode(caller, docId) # Ok THEN Db
    ELSE [Db EXCEPT !.documents[docId].visibility = visibility,
                    !.documents[docId].updatedAt = now]

RemoveCode(caller, docId) == OwnerOnlyCode(caller, docId)

\* remove that leaves the document's presence rows behind
Remove_KeepPresence(caller, docId) ==
    IF RemoveCode(caller, docId) # Ok THEN Db
    ELSE [Db EXCEPT
            !.documentUpdates[docId] = <<>>,
            !.documentMembers = {m \in documentMembers : m.docId # docId},
            !.documents = [d \in DOMAIN documents \ {docId} |-> documents[d]]]

\* remove that leaves the document's membership rows behind
Remove_KeepMembers(caller, docId) ==
    IF RemoveCode(caller, docId) # Ok THEN Db
    ELSE [Db EXCEPT
            !.documentUpdates[docId] = <<>>,
            !.documentPresence = SelectSeq(documentPresence, LAMBDA p : p.docId # docId),
            !.documents = [d \in DOMAIN documents \ {docId} |-> documents[d]]]

\* remove: the document's updates, members and presence, then the document itself
Remove(caller, docId) ==
    IF RemoveCode(caller, docId) # Ok THEN Db
    ELSE [Db EXCEPT
            !.documentUpdates[docId] = <<>>,
            !.documentMembers = {m \in documentMembers : m.docId # docId},
            !.documentPresence = SelectSeq(documentPresence, LAMBDA p : p.docId # docId),
            !.documents = [d \in DOMAIN documents \ {docId} |-> documents[d]]]

\* get: the document with the caller's flags, or null
get(caller, docId) ==
    IF ~DocExists(docId) THEN Null
    ELSE IF ~canView(documents[docId], caller) THEN Null
    ELSE [doc |-> documents[docId],
          isOwner |-> caller # NoUser /\ documents[docId].ownerId = caller,
          canEdit |-> canEdit(documents[docId], caller)]

\* The ids of a set of documents in index order, which is creation order
RECURSIVE ByCreation(_)
ByCreation(ids) ==
    IF ids = {} THEN <<>>
    ELSE LET first == CHOOSE d \in ids : \A e \in ids : d <= e
         IN  <<first>> \o ByCreation(ids \ {first})

\* The dedupe loop of list: the first occurrence of every id is kept
RECURSIVE Dedupe(_, _)
Dedupe(ids, seen) ==
    IF ids = <<>> THEN <<>>
    ELSE IF Head(ids) \in seen THEN Dedupe(Tail(ids), seen)
    ELSE <<Head(ids)>> \o Dedupe(Tail(ids), seen \cup {Head(ids)})

\* The search index on title: the documents whose title has the word searched
SearchTitle(searchQuery) ==
    ByCreation({d \in DOMAIN documents : documents[d].title = searchQuery})

\* The candidate documents of list before the access filter, without the
\* dedupe loop.  searchQuery is args.query?.trim(), with "" for the falsy
\* values: no query and a blank one.
ListCandidates_NoDedupe(caller, searchQuery) ==
    LET publicDocs == ByCreation({d \in DOMAIN documents :
                                     documents[d].visibility = "public"})
        ownedDocs == ByCreation({d \in DOMAIN documents :
                                    documents[d].ownerId = caller})
        memberDocs == ByCreation({m.docId : m \in {n \in documentMembers :
                                                    n.userId = caller}}
                                 \cap DOMAIN documents)
    IN  IF searchQuery # "" THEN SearchTitle(searchQuery)
        ELSE IF caller # NoUser THEN ownedDocs \o memberDocs \o publicDocs
        ELSE publicDocs

\* The candidate documents of list before the access filter
ListCandidates(caller, searchQuery) ==
    LET publicDocs == ByCreation({d \in DOMAIN documents :
                                     documents[d].visibility = "public"})
        ownedDocs == ByCreation({d \in DOMAIN documents :
                                    documents[d].ownerId = caller})
        memberDocs == ByCreation({m.docId : m \in {n \in documentMembers :
                                                    n.userId = caller}}
                                 \cap DOMAIN documents)
    IN  IF searchQuery # "" THEN SearchTitle(searchQuery)
        ELSE IF caller # NoUser
             THEN Dedupe(ownedDocs \o memberDocs \o publicDocs, {})
        ELSE publicDocs

\* list: the candidates the caller can view, most recently updated first
\* (Array.prototype.sort is stable), each as the summary the handler returns
docsList(caller, searchQuery) ==
    LET filtered == SelectSeq(ListCandidates(caller, searchQuery),
                              LAMBDA d : canView(documents[d], caller))
        sorted == SortSeq(filtered,
                          LAMBDA a, b : documents[a].updatedAt > documents[b].updatedAt)
    IN  [i \in 1..Len(sorted) |->
            [_id |-> sorted[i], title |-> documents[sorted[i]].title,
             ownerId |-> documents[sorted[i]].ownerId,
             visibility |-> documents[sorted[i]].visibility,
             updatedAt |-> documents[sorted[i]].updatedAt,
             isOwner |-> caller # NoUser /\ documents[sorted[i]].ownerId = caller]]

\* members.add without the test that the user is the owner
MembersAddCode_OwnerAllowed(caller, docId, userId) == OwnerOnlyCode(caller, docId)

(***************************************************************************)
(* convex/members.ts                                                       *)
(***************************************************************************)
MembersAddCode(caller, docId, userId) ==
    IF OwnerOnlyCode(caller, docId) # Ok THEN OwnerOnlyCode(caller, docId)
    ELSE IF userId = documents[docId].ownerId THEN BadRequest
    ELSE Ok

\* members.add without the lookup of the existing row: it always inserts
MembersAdd_AlwaysInserts(caller, docId, userId, role) ==
    IF MembersAddCode(caller, docId, userId) # Ok THEN Db
    ELSE [Db EXCEPT !.documentMembers =
            documentMembers \cup {[docId |-> docId, userId |-> userId, role |-> role]}]

MembersAdd(caller, docId, userId, role) ==
    IF MembersAddCode(caller, docId, userId) # Ok THEN Db
    ELSE LET existing == {m \in documentMembers : m.docId = docId /\ m.userId = userId}
         IN  [Db EXCEPT !.documentMembers =
                IF existing # {}
                THEN (documentMembers \ existing)
                       \cup {[m EXCEPT !.role = role] : m \in existing}
                ELSE documentMembers
                       \cup {[docId |-> docId, userId |-> userId, role |-> role]}]

\* The row whose id members.add returns: the existing row with its role
\* patched, or the row inserted.  A membership row is identified by its
\* (docId, userId).
MembersAddReturn(caller, docId, userId, role) ==
    IF MembersAddCode(caller, docId, userId) # Ok THEN Null
    ELSE LET existing == {m \in documentMembers : m.docId = docId /\ m.userId = userId}
         IN  IF existing # {}
             THEN [(CHOOSE m \in existing : TRUE) EXCEPT !.role = role]
             ELSE [docId |-> docId, userId |-> userId, role |-> role]

MembersRemoveCode(caller, docId) == OwnerOnlyCode(caller, docId)

\* members.remove that also deletes the updates the removed member wrote
MembersRemove_PurgesUpdates(caller, docId, userId) ==
    IF MembersRemoveCode(caller, docId) # Ok THEN Db
    ELSE [Db EXCEPT
            !.documentMembers =
                {m \in documentMembers : ~(m.docId = docId /\ m.userId = userId)},
            !.documentUpdates[docId] = SelectSeq(@, LAMBDA r : r.userId # userId)]

MembersRemove(caller, docId, userId) ==
    IF MembersRemoveCode(caller, docId) # Ok THEN Db
    ELSE [Db EXCEPT !.documentMembers =
            {m \in documentMembers : ~(m.docId = docId /\ m.userId = userId)}]

MembersUpdateRoleCode(caller, docId, userId) ==
    IF OwnerOnlyCode(caller, docId) # Ok THEN OwnerOnlyCode(caller, docId)
    ELSE IF getMemberRole(docId, userId) = NoRole THEN NotFound
    ELSE Ok

MembersUpdateRole(caller, docId, userId, role) ==
    IF MembersUpdateRoleCode(caller, docId, userId) # Ok THEN Db
    ELSE [Db EXCEPT !.documentMembers =
            {IF m.docId = docId /\ m.userId = userId THEN [m EXCEPT !.role = role] ELSE m :
               m \in documentMembers}]

MembersListCode(caller, docId) == OwnerOnlyCode(caller, docId)

\* members.list: the document's membership rows, for its owner
membersList(caller, docId) ==
    IF MembersListCode(caller, docId) # Ok THEN Null
    ELSE {m \in documentMembers : m.docId = docId}

(***************************************************************************)
(* convex/collab.ts                                                        *)
(***************************************************************************)
\* The checks of submitUpdate with the edit right remembered: whoever
\* appended to the document before may append again
SubmitUpdateCode_PastAuthors(caller, docId) ==
    IF caller = NoUser THEN Unauthenticated
    ELSE IF ~DocExists(docId) THEN NotFound
    ELSE IF /\ ~canEdit(documents[docId], caller)
            /\ \A i \in 1..Len(documentUpdates[docId]) :
                 documentUpdates[docId][i].userId # caller
         THEN Forbidden
    ELSE Ok

\* submitUpdate's outcome: requireUser, the document, canEdit
SubmitUpdateCode(caller, docId) ==
    IF caller = NoUser THEN Unauthenticated
    ELSE IF ~DocExists(docId) THEN NotFound
    ELSE IF ~canEdit(documents[docId], caller) THEN Forbidden
    ELSE Ok

\* The seq submitUpdate assigns: (doc.lastSeq ?? 0) + 1
NextSeq(docId) == documents[docId].lastSeq + 1

\* The row with the author taken from the clientId the client sent
UpdateRow_ClientAuthor(caller, docId, update, clientId) ==
    [docId |-> docId, seq |-> NextSeq(docId), update |-> update,
     userId |-> IF clientId = 11 THEN "alice" ELSE "bob", clientId |-> clientId]

\* The row submitUpdate inserts
UpdateRow(caller, docId, update, clientId) ==
    [docId |-> docId, seq |-> NextSeq(docId), update |-> update,
     userId |-> caller, clientId |-> clientId]

\* submitUpdate with the patch of lastSeq left out
SubmitUpdate_NoBump(caller, docId, update, clientId) ==
    IF SubmitUpdateCode(caller, docId) # Ok THEN Db
    ELSE [Db EXCEPT
            !.documents[docId].updatedAt = now,
            !.documentUpdates[docId] =
                Append(@, UpdateRow(caller, docId, update, clientId))]

\* submitUpdate patching the document before it checks canEdit
SubmitUpdate_PatchFirst(caller, docId, update, clientId) ==
    IF caller = NoUser \/ ~DocExists(docId) THEN Db
    ELSE IF ~canEdit(documents[docId], caller)
    THEN [Db EXCEPT !.documents[docId].updatedAt = now]
    ELSE [Db EXCEPT
            !.documents[docId].lastSeq = NextSeq(docId),
            !.documents[docId].updatedAt = now,
            !.documentUpdates[docId] =
                Append(@, UpdateRow(caller, docId, update, clientId))]

\* submitUpdate: past its checks, the patch of the document, then the inserted row
SubmitUpdate(caller, docId, update, clientId) ==
    IF SubmitUpdateCode(caller, docId) # Ok THEN Db
    ELSE [Db EXCEPT
            !.documents[docId].lastSeq = NextSeq(docId),
            !.documents[docId].updatedAt = now,
            !.documentUpdates[docId] =
                Append(@, UpdateRow(caller, docId, update, clientId))]

\* A sequence of update rows in index order: ascending seq, ties in insertion order
BySeq(rows) == SortSeq(rows, LAMBDA a, b : a.seq < b.seq)

\* .take(limit)
Take(rows, limit) == SubSeq(rows, 1, IF limit < Len(rows) THEN limit ELSE Len(rows))

Min(a, b) == IF a <= b THEN a ELSE b

\* listUpdates taking the caller's limit as it is, without the cap of 512
listUpdates_NoCap(caller, docId, afterSeq, limit) ==
    IF ~DocExists(docId) THEN <<>>
    ELSE IF ~canView(documents[docId], caller) THEN <<>>
    ELSE Take(BySeq(SelectSeq(documentUpdates[docId],
                              LAMBDA r : r.docId = docId /\ r.seq > afterSeq)),
              limit)

\* listUpdates with afterSeq and limit given: empty without access
listUpdates(caller, docId, afterSeq, limit) ==
    IF ~DocExists(docId) THEN <<>>
    ELSE IF ~canView(documents[docId], caller) THEN <<>>
    ELSE Take(BySeq(SelectSeq(documentUpdates[docId],
                              LAMBDA r : r.docId = docId /\ r.seq > afterSeq)),
              Min(limit, 512))

\* listUpdates as called: args.afterSeq ?? 0 and args.limit ?? 128
listUpdatesArgs(caller, args) ==
    listUpdates(caller, args.docId,
                IF "afterSeq" \in DOMAIN args THEN args.afterSeq ELSE 0,
                IF "limit" \in DOMAIN args THEN args.limit ELSE 128)

\* How a call of listUpdates can end.  The handler has no throw: it returns
\* the empty array for a missing document or a caller without view access
\* before it looks at the limit, and otherwise hands Math.min(limit, 512) to
\* db.take, which returns for a limit of at least 1; what db.take does with
\* a smaller limit is the database library's, so every ending is possible.
ListUpdatesOutcomes(caller, args) ==
    IF ~DocExists(args.docId) THEN {"returns"}
    ELSE IF ~canView(documents[args.docId], caller) THEN {"returns"}
    ELSE IF Min(IF "limit" \in DOMAIN args THEN args.limit ELSE 128, 512) >= 1
    THEN {"returns"}
    ELSE {"returns", "InvalidArgument", "other error"}

\* getSeq without the canView test
getSeq_NoAccessCheck(caller, docId) ==
    IF ~DocExists(docId) THEN [seq |-> 0]
    ELSE [seq |-> documents[docId].lastSeq]

\* getSeq: seq 0 without access
getSeq(caller, docId) ==
    IF ~DocExists(docId) THEN [seq |-> 0]
    ELSE IF ~canView(documents[docId], caller) THEN [seq |-> 0]
    ELSE [seq |-> documents[docId].lastSeq]

\* The model's bounds on a call: ids left to hand out, appends left to take
CanCreate == nextDocId \in DocIds
CanAppend(caller, docId) ==
    SubmitUpdateCode(caller, docId) = Ok => NextSeq(docId) <= MaxSeq

(***************************************************************************)
(* convex/presence.ts                                                      *)
(***************************************************************************)
\* The display name heartbeat stores: the user's profile name
UserName(userId) == userId

\* The index of the caller's presence row on the document, 0 if there is none
PresenceIndex(docId, userId) ==
    LET hits == {i \in 1..Len(documentPresence) :
                    /\ documentPresence[i].docId = docId
                    /\ documentPresence[i].userId = userId}
    IN IF hits = {} THEN 0 ELSE CHOOSE i \in hits : TRUE

\* Array.prototype.sort by updatedAt descending; stable, so rows that tie
\* keep their table order
RECURSIVE InsertDesc(_, _)
InsertDesc(p, sorted) ==
    IF sorted = <<>> THEN <<p>>
    ELSE IF Head(sorted).updatedAt >= p.updatedAt
         THEN <<Head(sorted)>> \o InsertDesc(p, Tail(sorted))
         ELSE <<p>> \o sorted

RECURSIVE SortDesc(_)
SortDesc(rows) ==
    IF rows = <<>> THEN <<>>
    ELSE InsertDesc(rows[Len(rows)], SortDesc(SubSeq(rows, 1, Len(rows) - 1)))

\* list: the document's active presence rows, most recent first
presenceList(caller, docId) ==
    IF ~DocExists(docId) THEN <<>>
    ELSE IF ~canView(documents[docId], caller) THEN <<>>
    ELSE LET cutoff == now - PRESENCE_TIMEOUT_MS IN
         SortDesc(SelectSeq(documentPresence,
                            LAMBDA p : p.docId = docId /\ p.updatedAt >= cutoff))

\* heartbeat with the view check left out
HeartbeatCode_NoViewCheck(caller, docId) ==
    IF caller = NoUser THEN Unauthenticated
    ELSE IF ~DocExists(docId) THEN NotFound
    ELSE Ok

HeartbeatCode(caller, docId) ==
    IF caller = NoUser THEN Unauthenticated
    ELSE IF ~DocExists(docId) THEN NotFound
    ELSE IF ~canView(documents[docId], caller) THEN Forbidden
    ELSE Ok

\* heartbeat without the lookup of the existing row: it always inserts
Heartbeat_AlwaysInserts(caller, docId) ==
    IF HeartbeatCode(caller, docId) # Ok THEN Db
    ELSE [Db EXCEPT !.documentPresence =
                        Append(@, [docId |-> docId, userId |-> caller,
                                   name |-> UserName(caller), updatedAt |-> now])]

\* heartbeat: refresh the caller's presence row, or insert it
Heartbeat(caller, docId) ==
    IF HeartbeatCode(caller, docId) # Ok THEN Db
    ELSE IF PresenceIndex(docId, caller) # 0
    THEN [Db EXCEPT !.documentPresence[PresenceIndex(docId, caller)] =
                        [@ EXCEPT !.updatedAt = now, !.name = UserName(caller)]]
    ELSE [Db EXCEPT !.documentPresence =
                        Append(@, [docId |-> docId, userId |-> caller,
                                   name |-> UserName(caller), updatedAt |-> now])]

\* The presence id heartbeat returns.  A row is identified by its place in
\* the table: existing._id is the place of the row found, the id of an
\* inserted row is the place after the last row.
HeartbeatReturn(caller, docId) ==
    IF HeartbeatCode(caller, docId) # Ok THEN Null
    ELSE IF PresenceIndex(docId, caller) # 0 THEN PresenceIndex(docId, caller)
    ELSE Len(documentPresence) + 1

LeaveCode(caller) == IF caller = NoUser THEN Unauthenticated ELSE Ok

\* leave that deletes the caller's presence rows on every document
Leave_AllDocuments(caller, docId) ==
    IF LeaveCode(caller) # Ok THEN Db
    ELSE [Db EXCEPT !.documentPresence = SelectSeq(@, LAMBDA p : p.userId # caller)]

\* leave: delete the caller's presence row, if any
Leave(caller, docId) ==
    IF LeaveCode(caller) # Ok THEN Db
    ELSE [Db EXCEPT !.documentPresence =
                        SelectSeq(@, LAMBDA p : ~(p.docId = docId /\ p.userId = caller))]

CleanupCode(caller) == IF caller = NoUser THEN Unauthenticated ELSE Ok

\* cleanup: the owner deletes the document's rows older than twice the timeout
Cleanup(caller, docId) ==
    IF CleanupCode(caller) # Ok THEN Db
    ELSE IF ~DocExists(docId) THEN Db
    ELSE IF documents[docId].ownerId # caller THEN Db
    ELSE LET cutoff == now - PRESENCE_TIMEOUT_MS * 2 IN
         [Db EXCEPT !.documentPresence =
                        SelectSeq(@, LAMBDA p : ~(p.docId = docId /\ p.updatedAt < cutoff))]

(***************************************************************************)
(* src/components/editor/CollabEditor.tsx                                  *)
(*                                                                         *)
(* A Yjs document is modelled by the set of operations it has integrated;  *)
(* an operation is <<clientID, clock>> and an update is a set of           *)
(* operations, so applying and merging updates is set union.               *)
(***************************************************************************)
Sessions == {"s1", "s2"}

\* The signed-in user of a browser session
SessionUser(s) == IF s = "s1" THEN "alice" ELSE "bob"

\* The clientID of the n-th Y.Doc a session makes, counted from 0: every
\* new Y.Doc() has an id of its own
replicaID(s, n) == (IF s = "s1" THEN 11 ELSE 12) + 10 * n

\* ydoc.clientID of the session's Y.Doc
clientID(s) == replicaID(s, Len(sessions[s].replaced))

\* The Y.Docs a session makes in the model
Generations == 0..2

\* A session with no editor mounted
Unmounted ==
    [mounted |-> FALSE, docId |-> 0, editable |-> FALSE,
     ydoc |-> {},        \* the operations integrated into the Y.Doc
     afterSeq |-> 0,     \* the watermark
     merged |-> {},      \* history: the seqs of the updates given to Y.applyUpdate
     timer |-> FALSE,    \* the effect's timer variable holds a timeout
     armed |-> 0,        \* the timeouts set and neither fired nor cleared
     pending |-> <<>>,   \* the buffered local updates
     isFlushing |-> FALSE,
     replaced |-> <<>>,  \* history: the docIds of the Y.Docs the session had before
     firstAfterSeq |-> 0,    \* history: afterSeq in the first render with this docId
     queried |-> {}]     \* the <<docId, afterSeq>> of the listUpdates queries made

\* The elements of a sequence
Range(s) == {s[i] : i \in 1..Len(s)}

\* Y.mergeUpdates(pending)
mergeUpdates(pending) == UNION Range(pending)

\* Y.applyUpdate(ydoc, update)
applyUpdate(ydoc, update) == ydoc \cup update

\* Bytes that are no Yjs update: Y.applyUpdate throws on them
Undecodable == {<<0, 0>>}

\* try { Y.applyUpdate(ydoc, updateData, REMOTE_ORIGIN) } catch (e) { console.error }
tryApplyUpdate(ydoc, update) ==
    IF update = Undecodable THEN ydoc ELSE applyUpdate(ydoc, update)

Max(a, b) == IF a >= b THEN a ELSE b

\* The apply effect's loop with the own-clientId test made before the seq is
\* counted
RECURSIVE ApplyLoop_SkipFirst(_, _, _)
ApplyLoop_SkipFirst(acc, cid, updates) ==
    IF updates = <<>> THEN acc
    ELSE LET update == Head(updates) IN
         ApplyLoop_SkipFirst(
             IF update.clientId = cid THEN acc
             ELSE [ydoc |-> tryApplyUpdate(acc.ydoc, update.update),
                   merged |-> acc.merged \cup {update.seq},
                   maxSeq |-> Max(acc.maxSeq, update.seq)],
             cid, Tail(updates))

\* The apply effect's loop: every update's seq counts, own updates are skipped,
\* the others are applied
RECURSIVE ApplyLoop(_, _, _)
ApplyLoop(acc, cid, updates) ==
    IF updates = <<>> THEN acc
    ELSE LET update == Head(updates)
             maxSeq == Max(acc.maxSeq, update.seq)
         IN  ApplyLoop(
                 IF update.clientId = cid THEN [acc EXCEPT !.maxSeq = maxSeq]
                 ELSE [ydoc |-> tryApplyUpdate(acc.ydoc, update.update),
                       merged |-> acc.merged \cup {update.seq},
                       maxSeq |-> maxSeq],
                 cid, Tail(updates))

\* The apply effect taking the seq of the first update of the page as the
\* new watermark
ApplyUpdates_HeadSeq(sess, cid, updates) ==
    LET r == ApplyLoop([ydoc |-> sess.ydoc, merged |-> sess.merged,
                        maxSeq |-> sess.afterSeq], cid, updates)
    IN  [sess EXCEPT !.ydoc = r.ydoc, !.merged = r.merged,
                     !.afterSeq = IF updates # <<>> /\ Head(updates).seq > sess.afterSeq
                                  THEN Head(updates).seq ELSE @]

\* The apply effect on a delivered page of updates, then setAfterSeq
ApplyUpdates(sess, cid, updates) ==
    LET r == ApplyLoop([ydoc |-> sess.ydoc, merged |-> sess.merged,
                        maxSeq |-> sess.afterSeq], cid, updates)
    IN  [sess EXCEPT !.ydoc = r.ydoc, !.merged = r.merged,
                     !.afterSeq = IF r.maxSeq > sess.afterSeq THEN r.maxSeq ELSE @]

\* onUpdate that sets a timeout for every local update
onUpdate_AlwaysArms(sess, update) ==
    [sess EXCEPT !.pending = Append(@, update), !.timer = TRUE, !.armed = @ + 1]

\* onUpdate for a local update: buffer it and, if (timer) return, else set
\* the timeout
onUpdate(sess, update) ==
    IF sess.timer THEN [sess EXCEPT !.pending = Append(@, update)]
    ELSE [sess EXCEPT !.pending = Append(@, update), !.timer = TRUE, !.armed = @ + 1]

REMOTE_ORIGIN == "remote"

\* The update listener run whatever the origin of the transaction
updateEvent_AnyOrigin(sess, update, origin) ==
    IF ~sess.editable THEN sess ELSE onUpdate(sess, update)

\* The Y.Doc emits "update": the outbound effect of an editable editor has
\* registered onUpdate, which returns at once for the remote origin
updateEvent(sess, update, origin) ==
    IF ~sess.editable THEN sess
    ELSE IF origin = REMOTE_ORIGIN THEN sess
    ELSE onUpdate(sess, update)

\* The update events of the apply effect's loop: one for every update that
\* Y.applyUpdate integrates and that brings something new to the Y.Doc
RECURSIVE RemoteEvents(_, _, _, _)
RemoteEvents(sess, ydoc, cid, updates) ==
    IF updates = <<>> THEN sess
    ELSE LET update == Head(updates)
             emits == /\ update.clientId # cid
                      /\ update.update # Undecodable
                      /\ ~(update.update \subseteq ydoc)
         IN  RemoteEvents(
                 IF emits THEN updateEvent(sess, update.update, REMOTE_ORIGIN) ELSE sess,
                 IF emits THEN applyUpdate(ydoc, update.update) ELSE ydoc,
                 cid, Tail(updates))

\* The apply effect of a mounted editor: the loop with its update events,
\* then setAfterSeq
ApplyEffect(sess, cid, updates) ==
    RemoteEvents(ApplyUpdates(sess, cid, updates), sess.ydoc, cid, updates)

\* flush issues a call unless there is nothing pending or a flush is running
FlushSends(sess) == ~(sess.pending = <<>> \/ sess.isFlushing)

\* flush, up to the await
flush(sess) ==
    IF ~FlushSends(sess) THEN sess
    ELSE [sess EXCEPT !.isFlushing = TRUE, !.pending = <<>>]

\* The submitUpdate call flush makes
FlushCall(s, sess) ==
    [session |-> s, caller |-> SessionUser(s), docId |-> sess.docId,
     update |-> mergeUpdates(sess.pending), clientId |-> clientID(s),
     status |-> "sent",
     stale |-> FALSE]    \* the effect that made the call has been cleaned up

\* flush after the await: catch logs the error, finally clears the
\* isFlushing of the effect that made the call, which is the session's unless
\* that effect has been cleaned up
SettleFlush(sess, call) ==
    IF call.stale THEN sess ELSE [sess EXCEPT !.isFlushing = FALSE]

\* The local operations made in all sessions so far
LocalOps == UNION {{o \in sessions[s].ydoc : o[1] = clientID(s)} : s \in Sessions}

\* The route renders CollabEditor for a document its get query returned
Mount(s, docId) ==
    /\ ~sessions[s].mounted
    /\ Len(sessions[s].replaced) \in Generations
    /\ get(SessionUser(s), docId) # Null
    /\ sessions' = [sessions EXCEPT ![s] =
                      [Unmounted EXCEPT !.mounted = TRUE, !.docId = docId,
                                        !.editable = get(SessionUser(s), docId).canEdit,
                                        !.replaced = sessions[s].replaced,
                                        !.queried = sessions[s].queried \cup {<<docId, 0>>}]]
    /\ UNCHANGED <<dbVars, now, calls, returned>>

\* The user types in an editable editor: a new operation enters the Y.Doc and
\* the update event runs onUpdate
LocalEdit(s) ==
    LET sess == sessions[s]
        op == <<clientID(s), Cardinality({o \in sess.ydoc : o[1] = clientID(s)}) + 1>>
    IN  /\ sess.mounted
        /\ sess.editable
        /\ Cardinality(LocalOps) < MaxSeq
        /\ sessions' = [sessions EXCEPT ![s] =
                          onUpdate([sess EXCEPT !.ydoc = applyUpdate(@, {op})], {op})]
        /\ UNCHANGED <<dbVars, now, calls, returned>>

\* A timeout fires: timer = null, then flush
TimerFire(s) ==
    LET sess == [sessions[s] EXCEPT !.timer = FALSE, !.armed = @ - 1] IN
    /\ sessions[s].armed > 0
    /\ sessions' = [sessions EXCEPT ![s] = flush(sess)]
    /\ calls' = IF FlushSends(sess) THEN Append(calls, FlushCall(s, sess)) ELSE calls
    /\ UNCHANGED <<dbVars, now, returned>>

\* The submitUpdate handler of a call in flight runs
ServerRun(i) ==
    LET c == calls[i] IN
    /\ c.status = "sent"
    /\ CanAppend(c.caller, c.docId)
    /\ Commit(SubmitUpdate(c.caller, c.docId, c.update, c.clientId))
    /\ calls' = [calls EXCEPT ![i].status =
                    IF SubmitUpdateCode(c.caller, c.docId) = Ok THEN "ok" ELSE "err"]
    /\ UNCHANGED <<now, returned, sessions>>

\* A call in flight is lost on the network: its promise will reject
NetFail(i) ==
    /\ calls[i].status = "sent"
    /\ calls' = [calls EXCEPT ![i].status = "err"]
    /\ UNCHANGED <<dbVars, now, returned, sessions>>

\* The promise of a call settles and flush resumes after its await
Settle(i) ==
    LET c == calls[i] IN
    /\ c.status # "sent"
    /\ sessions' = [sessions EXCEPT ![c.session] = SettleFlush(@, c)]
    /\ calls' = [k \in 1..(Len(calls) - 1) |-> IF k < i THEN calls[k] ELSE calls[k + 1]]
    /\ UNCHANGED <<dbVars, now, returned>>

\* The page useQuery holds for the session: listUpdates after its watermark
Page(s) == listUpdates(SessionUser(s), sessions[s].docId, sessions[s].afterSeq, 128)

\* useQuery delivers a page of updates and the apply effect runs
Receive(s) ==
    /\ sessions[s].mounted
    /\ Page(s) # <<>>
    /\ LET after == ApplyEffect(sessions[s], clientID(s), Page(s)) IN
         sessions' = [sessions EXCEPT ![s] =
                        [after EXCEPT !.queried = @ \cup {<<after.docId, after.afterSeq>>}]]
    /\ UNCHANGED <<dbVars, now, calls, returned>>

\* The route's live get query delivers another canEdit and CollabEditor
\* renders again with the new editable prop: the outbound effect of an editable
\* editor is cleaned up (its timeout cleared, what is pending given a final
\* flush), and the effect runs again, with a timer, a buffer and an isFlushing
\* of its own when the editor is editable, returning at once when it is not.
\* The calls of the effect cleaned up, its final flush included, stay in
\* flight.
Rerender(s) ==
    LET sess == sessions[s]
        doc == get(SessionUser(s), sess.docId)
        inFlight == [i \in 1..Len(calls) |->
                        IF calls[i].session = s THEN [calls[i] EXCEPT !.stale = TRUE]
                        ELSE calls[i]]
    IN  /\ sess.mounted
        /\ doc # Null
        /\ doc.canEdit # sess.editable
        /\ sessions' = [sessions EXCEPT ![s] =
                          [sess EXCEPT !.editable = doc.canEdit, !.timer = FALSE,
                                       !.armed = IF sess.timer THEN @ - 1 ELSE @,
                                       !.pending = <<>>, !.isFlushing = FALSE]]
        /\ calls' = IF sess.editable /\ FlushSends(sess)
                    THEN Append(inFlight, [FlushCall(s, sess) EXCEPT !.stale = TRUE])
                    ELSE inFlight
        /\ UNCHANGED <<dbVars, now, returned>>

\* The cleanup of the outbound effect, as it leaves the calls: the calls of
\* the effect stay in flight, and `void flush()` adds one for what is pending
\* unless the effect was not set up (not editable), nothing is pending or a
\* flush of the effect is running
EffectCleanup(s) ==
    LET sess == sessions[s]
        inFlight == [i \in 1..Len(calls) |->
                        IF calls[i].session = s THEN [calls[i] EXCEPT !.stale = TRUE]
                        ELSE calls[i]]
    IN  IF sess.editable /\ FlushSends(sess)
        THEN Append(inFlight, [FlushCall(s, sess) EXCEPT !.stale = TRUE])
        ELSE inFlight

\* How many updates the first render with another docId can have at once:
\* useQuery has data in that render only if listUpdates(docId, afterSeq) is in
\* the client's cache, which holds what it was last told, a prefix of the
\* present result
CachedLen(s, docId) ==
    IF <<docId, sessions[s].afterSeq>> \in sessions[s].queried
    THEN Len(listUpdates(SessionUser(s), docId, sessions[s].afterSeq, 128))
    ELSE 0

\* The component after the commit of its first render with another docId,
\* when that render had the first n updates of its query: a new Y.Doc, the
\* effects setAfterSeq(0) and then the apply effect, on the afterSeq of the
\* render, and the state updates applied in the order they were made
Switched(s, docId, n) ==
    LET sess == sessions[s]
        page == listUpdates(SessionUser(s), docId, sess.afterSeq, 128)
        fresh == [Unmounted EXCEPT !.mounted = TRUE, !.docId = docId,
                                   !.editable = get(SessionUser(s), docId).canEdit,
                                   !.afterSeq = sess.afterSeq,
                                   !.firstAfterSeq = sess.afterSeq,
                                   !.replaced = Append(sess.replaced, sess.docId),
                                   !.queried = sess.queried]
        applied == ApplyUpdates(fresh, replicaID(s, Len(fresh.replaced)), SubSeq(page, 1, n))
        afterSeq == IF applied.afterSeq > sess.afterSeq THEN applied.afterSeq ELSE 0
    IN  [applied EXCEPT !.afterSeq = afterSeq,
                        !.queried = @ \cup {<<docId, sess.afterSeq>>, <<docId, afterSeq>>}]

\* The switch with the final flush of the cleanup made with the docId and the
\* Y.Doc of the new render
SwitchDoc_LateFlush(s, docId) ==
    LET sess == sessions[s] IN
    /\ sess.mounted
    /\ docId # sess.docId
    /\ Len(sess.replaced) + 1 \in Generations
    /\ get(SessionUser(s), docId) # Null
    /\ \E n \in 0..CachedLen(s, docId) :
         sessions' = [sessions EXCEPT ![s] = Switched(s, docId, n)]
    /\ calls' = [i \in 1..Len(EffectCleanup(s)) |->
                   IF i > Len(calls)
                   THEN [EffectCleanup(s)[i] EXCEPT
                           !.docId = docId,
                           !.clientId = replicaID(s, Len(sess.replaced) + 1)]
                   ELSE EffectCleanup(s)[i]]
    /\ UNCHANGED <<dbVars, now, returned>>

\* The route renders CollabEditor with another docId.  In that render the
\* component makes a new Y.Doc, afterSeq is still the state of the previous
\* document and useQuery asks for listUpdates(docId, afterSeq): it has data
\* at once only if the query is in the client's cache, which holds what it
\* was last told.  After the render the outbound effect of the old docId is
\* cleaned up, with the docId and the Y.Doc of its closure, then the effects
\* run in order: setAfterSeq(0), the apply effect on the render's updates and
\* afterSeq, the outbound effect.
SwitchDoc(s, docId) ==
    LET sess == sessions[s] IN
    /\ sess.mounted
    /\ docId # sess.docId
    /\ Len(sess.replaced) + 1 \in Generations
    /\ get(SessionUser(s), docId) # Null
    /\ \E n \in 0..CachedLen(s, docId) :
         sessions' = [sessions EXCEPT ![s] = Switched(s, docId, n)]
    /\ calls' = EffectCleanup(s)
    /\ UNCHANGED <<dbVars, now, returned>>

\* The route stops rendering CollabEditor: the outbound effect is cleaned up
\* and the component's Y.Doc and state are gone; the client's query cache
\* stays
Unmount(s) ==
    LET sess == sessions[s] IN
    /\ sess.mounted
    /\ sessions' = [sessions EXCEPT ![s] =
                      [Unmounted EXCEPT !.replaced = Append(sess.replaced, sess.docId),
                                        !.queried = sess.queried]]
    /\ calls' = EffectCleanup(s)
    /\ UNCHANGED <<dbVars, now, returned>>

(***************************************************************************)
(* The clock.                                                              *)
(***************************************************************************)
Tick(dt) == now' = now + dt

(***************************************************************************)
(* Spec: the tables under every document, membership and append handler,   *)
(* each call run in one step by any caller.                                *)
(***************************************************************************)
Init ==
    /\ documents = <<>>
    /\ nextDocId = 1
    /\ documentMembers = {}
    /\ documentUpdates = [d \in DocIds |-> <<>>]
    /\ documentPresence = <<>>
    /\ now = 0
    /\ calls = <<>>
    /\ returned = [d \in DocIds |-> <<>>]
    /\ sessions = [s \in Sessions |-> Unmounted]

DoCreate ==
    /\ \E u \in Callers, v \in Visibilities :
         CanCreate /\ Commit(Create(u, "Untitled", v))
    /\ UNCHANGED nonDbVars
DoUpdateTitle ==
    /\ \E u \in Callers, d \in DocIds : Commit(UpdateTitle(u, d, "Untitled"))
    /\ UNCHANGED nonDbVars
DoSetVisibility ==
    /\ \E u \in Callers, d \in DocIds, v \in Visibilities : Commit(SetVisibility(u, d, v))
    /\ UNCHANGED nonDbVars
DoRemove ==
    /\ \E u \in Callers, d \in DocIds : Commit(Remove(u, d))
    /\ UNCHANGED nonDbVars
DoMembersAdd ==
    /\ \E u \in Callers, d \in DocIds, m \in Users, r \in Roles :
         Commit(MembersAdd(u, d, m, r))
    /\ UNCHANGED nonDbVars
DoMembersRemove ==
    /\ \E u \in Callers, d \in DocIds, m \in Users : Commit(MembersRemove(u, d, m))
    /\ UNCHANGED nonDbVars
DoMembersUpdateRole ==
    /\ \E u \in Callers, d \in DocIds, m \in Users, r \in Roles :
         Commit(MembersUpdateRole(u, d, m, r))
    /\ UNCHANGED nonDbVars
DoSubmitUpdate ==
    /\ \E u \in Callers, d \in DocIds :
         CanAppend(u, d) /\ Commit(SubmitUpdate(u, d, {1}, 11))
    /\ UNCHANGED nonDbVars
DoTick ==
    /\ now + 1 \in Times
    /\ Tick(1)
    /\ UNCHANGED <<dbVars, calls, returned, sessions>>

Next ==
    \/ DoCreate
    \/ DoUpdateTitle
    \/ DoSetVisibility
    \/ DoRemove
    \/ DoMembersAdd
    \/ DoMembersRemove
    \/ DoMembersUpdateRole
    \/ DoSubmitUpdate
    \/ DoTick

Spec == Init /\ [][Next]_vars

(***************************************************************************)
(* SpecAppend: submitUpdate calls in flight on the first document created.  *)
(* Clients issue calls while earlier ones are still pending; the pending    *)
(* handlers run one at a time, in any order, between membership changes     *)
(* and the document's removal.                                              *)
(***************************************************************************)
\* A client calls submitUpdate; base is the document's lastSeq at that moment
IssueSubmit(caller, docId, update, clientId) ==
    /\ Len(calls) < MaxCalls
    /\ calls' = Append(calls,
                       [caller |-> caller, docId |-> docId, update |-> update,
                        clientId |-> clientId,
                        base |-> IF DocExists(docId) THEN documents[docId].lastSeq ELSE 0])
    /\ UNCHANGED <<now, returned, sessions>>

\* submitUpdate's return value
SubmitUpdateReturn(docId) == [seq |-> NextSeq(docId)]

\* RunSubmit with the seq computed from the lastSeq the client saw when it
\* issued the call, not from the lastSeq the transaction reads
RunSubmit_StaleRead(i) ==
    LET c == calls[i] IN
    /\ CanAppend(c.caller, c.docId)
    /\ Commit(SubmitUpdate(c.caller, c.docId, c.update, c.clientId))
    /\ returned' = IF SubmitUpdateCode(c.caller, c.docId) = Ok
                   THEN [returned EXCEPT ![c.docId] = Append(@, <<c.base + 1, c.base>>)]
                   ELSE returned
    /\ calls' = [k \in 1..(Len(calls) - 1) |-> IF k < i THEN calls[k] ELSE calls[k + 1]]

\* The handler of the i-th pending call runs and the call settles
RunSubmit(i) ==
    LET c == calls[i] IN
    /\ CanAppend(c.caller, c.docId)
    /\ Commit(SubmitUpdate(c.caller, c.docId, c.update, c.clientId))
    /\ returned' = IF SubmitUpdateCode(c.caller, c.docId) = Ok
                   THEN [returned EXCEPT ![c.docId] =
                           Append(@, <<SubmitUpdateReturn(c.docId).seq, c.base>>)]
                   ELSE returned
    /\ calls' = [k \in 1..(Len(calls) - 1) |-> IF k < i THEN calls[k] ELSE calls[k + 1]]

ADoCreate ==
    /\ \E u \in Users, v \in Visibilities :
         nextDocId = 1 /\ Commit(Create(u, "Untitled", v))
    /\ UNCHANGED nonDbVars
ADoMembersAdd ==
    /\ \E d \in DOMAIN documents, m \in Users, r \in Roles :
         Commit(MembersAdd(documents[d].ownerId, d, m, r))
    /\ UNCHANGED nonDbVars
ADoRemove ==
    /\ \E d \in DOMAIN documents : Commit(Remove(documents[d].ownerId, d))
    /\ UNCHANGED nonDbVars
ADoIssueSubmit ==
    /\ \E u \in Callers, d \in DocIds : IssueSubmit(u, d, {1}, 11)
    /\ UNCHANGED dbVars
ADoRunSubmit ==
    /\ \E i \in 1..Len(calls) : RunSubmit(i)
    /\ UNCHANGED <<now, sessions>>

NextAppend ==
    \/ ADoCreate
    \/ ADoMembersAdd
    \/ ADoRemove
    \/ ADoIssueSubmit
    \/ ADoRunSubmit

SpecAppend == Init /\ [][NextAppend]_vars

\* The calls that returned for a document, in the order they ran
ReturnedFor(docId) == returned[docId]

\* C1: for a document with lastSeq = L and N concurrent authorized
\* submitUpdate calls, in every interleaving the seqs returned are exactly
\* L+1..L+N, each returned once, and lastSeq ends at L+N: whatever L the
\* calls started from, the calls that ran since lastSeq was L returned
\* exactly L+1..lastSeq, one call per value, each above the lastSeq it was
\* issued at.
C1_ConcurrentAppendsGetConsecutiveSeqs ==
    \A d \in DOMAIN documents :
        LET R == ReturnedFor(d) IN
        /\ Len(R) = documents[d].lastSeq
        /\ \A L \in 0..Len(R) :
             {R[i][1] : i \in (L + 1)..Len(R)} = (L + 1)..documents[d].lastSeq
        /\ \A i \in 1..Len(R) : R[i][2] < R[i][1]

\* C1's case: two calls on one document, by its owner and by an editor, that
\* were issued at the same lastSeq (so both were in flight at once) have both
\* returned.
C1_Witness ==
    \E d \in DOMAIN documents :
        LET R == ReturnedFor(d) IN
        /\ Len(R) >= 2
        /\ R[1][2] = R[2][2]
        /\ documentUpdates[d][1].userId # documentUpdates[d][2].userId

(***************************************************************************)
(* SpecPresence: presence on the first document created, which is appended  *)
(* to, switched between private and public, given members and removed,      *)
(* while the clock advances one heartbeat period at a time.                 *)
(***************************************************************************)
PDoCreate ==
    /\ \E u \in Users, v \in Visibilities :
         nextDocId = 1 /\ Commit(Create(u, "Untitled", v))
    /\ UNCHANGED nonDbVars
PDoSetVisibility ==
    /\ \E d \in DOMAIN documents, v \in Visibilities :
         Commit(SetVisibility(documents[d].ownerId, d, v))
    /\ UNCHANGED nonDbVars
PDoMembersAdd ==
    /\ \E d \in DOMAIN documents, m \in Users, r \in Roles :
         Commit(MembersAdd(documents[d].ownerId, d, m, r))
    /\ UNCHANGED nonDbVars
PDoRemove ==
    /\ \E d \in DOMAIN documents : Commit(Remove(documents[d].ownerId, d))
    /\ UNCHANGED nonDbVars
PDoSubmitUpdate ==
    /\ \E d \in DOMAIN documents :
         /\ CanAppend(documents[d].ownerId, d)
         /\ Commit(SubmitUpdate(documents[d].ownerId, d, {1}, 11))
    /\ UNCHANGED nonDbVars
PDoHeartbeat ==
    /\ \E u \in Callers, d \in DocIds : Commit(Heartbeat(u, d))
    /\ UNCHANGED nonDbVars
PDoLeave ==
    /\ \E u \in Callers, d \in DocIds : Commit(Leave(u, d))
    /\ UNCHANGED nonDbVars
PDoCleanup ==
    /\ \E u \in Callers, d \in DocIds : Commit(Cleanup(u, d))
    /\ UNCHANGED nonDbVars
PDoTick ==
    /\ now + HEARTBEAT_INTERVAL_MS <= MaxBeats * HEARTBEAT_INTERVAL_MS
    /\ Tick(HEARTBEAT_INTERVAL_MS)
    /\ UNCHANGED <<dbVars, calls, returned, sessions>>

NextPresence ==
    \/ PDoCreate
    \/ PDoSetVisibility
    \/ PDoMembersAdd
    \/ PDoRemove
    \/ PDoSubmitUpdate
    \/ PDoHeartbeat
    \/ PDoLeave
    \/ PDoCleanup
    \/ PDoTick

SpecPresence == Init /\ [][NextPresence]_vars

\* The stored updates of a document after afterSeq, in seq order
StoredAfter(docId, afterSeq) ==
    SelectSeq(BySeq(documentUpdates[docId]), LAMBDA r : r.seq > afterSeq)

\* The presence rows of a document refreshed less than the timeout ago
FreshRows(docId) ==
    {documentPresence[i] : i \in {j \in 1..Len(documentPresence) :
        /\ documentPresence[j].docId = docId
        /\ now - documentPresence[j].updatedAt < PRESENCE_TIMEOUT_MS}}

\* C8: on a public document an unauthenticated caller is served by the read
\* operations: get returns the document with canEdit = false and
\* isOwner = false, listUpdates returns the stored updates after afterSeq,
\* getSeq returns lastSeq, and presence.list returns the active rows, the
\* same rows the owner is given; none answers with the neutral empty result
\* because the caller is anonymous.
C8_AnonymousReadsPublicDocument ==
    \A d \in DOMAIN documents :
        documents[d].visibility = "public" =>
            /\ get(NoUser, d) # Null
            /\ get(NoUser, d).doc = documents[d]
            /\ get(NoUser, d).canEdit = FALSE
            /\ get(NoUser, d).isOwner = FALSE
            /\ \A a \in 0..MaxSeq :
                 listUpdates(NoUser, d, a, 128) = StoredAfter(d, a)
            /\ getSeq(NoUser, d).seq = documents[d].lastSeq
            /\ presenceList(NoUser, d) = presenceList(documents[d].ownerId, d)
            /\ FreshRows(d) \subseteq Range(presenceList(NoUser, d))
            /\ \A p \in Range(presenceList(NoUser, d)) : p.docId = d

\* C8's case: a public document with stored updates, a fresh presence row
\* and a stale one, whose updates and fresh row the anonymous caller receives
C8_Witness ==
    \E d \in DOMAIN documents :
        /\ documents[d].visibility = "public"
        /\ documents[d].lastSeq >= 2
        /\ Len(listUpdates(NoUser, d, 1, 128)) = 1
        /\ getSeq(NoUser, d).seq = 2
        /\ FreshRows(d) # {}
        /\ Len(presenceList(NoUser, d)) >= 1
        /\ \E i \in 1..Len(documentPresence) :
             /\ documentPresence[i].docId = d
             /\ now - documentPresence[i].updatedAt > PRESENCE_TIMEOUT_MS
        /\ get(NoUser, d) # Null

(***************************************************************************)
(* SpecSync: two browser sessions, alice's and bob's, on the first          *)
(* document created.  The owner may add bob or change his role at any time; *)
(* a call in flight may be lost on the network.                             *)
(***************************************************************************)
SDoCreate ==
    /\ \E v \in Visibilities : nextDocId = 1 /\ Commit(Create("alice", "Untitled", v))
    /\ UNCHANGED nonDbVars
SDoMembersAdd ==
    /\ \E d \in DOMAIN documents, r \in Roles :
         Commit(MembersAdd(documents[d].ownerId, d, "bob", r))
    /\ UNCHANGED nonDbVars
SDoMount == \E s \in Sessions, d \in DOMAIN documents : Mount(s, d)
SDoLocalEdit == \E s \in Sessions : LocalEdit(s)
SDoTimerFire == \E s \in Sessions : TimerFire(s)
SDoServerRun == \E i \in 1..Len(calls) : ServerRun(i)
SDoNetFail == \E i \in 1..Len(calls) : NetFail(i)
SDoSettle == \E i \in 1..Len(calls) : Settle(i)
SDoReceive == \E s \in Sessions : Receive(s)

NextSync ==
    \/ SDoCreate
    \/ SDoMembersAdd
    \/ SDoMount
    \/ SDoLocalEdit
    \/ SDoTimerFire
    \/ SDoServerRun
    \/ SDoNetFail
    \/ SDoSettle
    \/ SDoReceive

SpecSync == Init /\ [][NextSync]_vars

\* The update rows stored for a document with a given seq
RowsWithSeq(docId, seq) == {r \in Range(documentUpdates[docId]) : r.seq = seq}

\* C6: echo suppression: processing a delivered batch never merges an update
\* whose clientId is the replica's own, yet that update's seq still counts
\* toward the watermark: after the batch the watermark is at least the seq of
\* every update in it, exactly the updates of other clients were merged, and
\* no update ever merged by a session carries the session's clientId.
C6_EchoSuppression ==
    \A s \in Sessions :
        LET sess == sessions[s]
            batch == Range(Page(s))
            after == ApplyUpdates(sess, clientID(s), Page(s))
        IN  sess.mounted =>
              /\ \A u \in batch :
                   /\ u.clientId = clientID(s) => u.seq \notin after.merged
                   /\ after.afterSeq >= u.seq
              /\ after.merged =
                   sess.merged \cup {u.seq : u \in {v \in batch : v.clientId # clientID(s)}}
              /\ (\A u \in batch : u.clientId = clientID(s)) => after.ydoc = sess.ydoc
              /\ \A q \in sess.merged :
                   \A r \in RowsWithSeq(sess.docId, q) : r.clientId # clientID(s)

\* C6's case: a session has processed the update of another client at seq 1
\* and its own update at seq 2: it merged only the first, and its watermark
\* is 2.
C6_Witness ==
    \E s \in Sessions :
        /\ sessions[s].mounted
        /\ sessions[s].afterSeq = 2
        /\ sessions[s].merged = {1}
        /\ \E r \in RowsWithSeq(sessions[s].docId, 2) : r.clientId = clientID(s)
        /\ \E r \in RowsWithSeq(sessions[s].docId, 1) : r.clientId # clientID(s)

\* C3: when a flush fails, the coalesced payload that was being sent is put
\* back at the front of pendingOps and the flush state returns to idle: for
\* every call in flight that has failed, once flush resumes the session's
\* pending is the payload followed by what was buffered meanwhile, and
\* isFlushing is false.
C3_FailedFlushRebuffers ==
    \A i \in 1..Len(calls) :
        calls[i].status = "err" =>
            LET sess == sessions[calls[i].session]
                after == SettleFlush(sess, calls[i])
            IN  /\ after.pending = <<calls[i].update>> \o sess.pending
                /\ after.isFlushing = FALSE

\* A session is quiescent: its watermark is the document's lastSeq, nothing is
\* pending and no flush is in flight
Quiescent(s) ==
    /\ sessions[s].mounted
    /\ DocExists(sessions[s].docId)
    /\ sessions[s].afterSeq = documents[sessions[s].docId].lastSeq
    /\ sessions[s].pending = <<>>
    /\ ~sessions[s].isFlushing

\* C5: convergence: whenever two sessions on the same document are both
\* quiescent, their local replica states are equal.
C5_QuiescentSessionsAgree ==
    \A s, t \in Sessions :
        (/\ Quiescent(s)
         /\ Quiescent(t)
         /\ sessions[s].docId = sessions[t].docId)
            => sessions[s].ydoc = sessions[t].ydoc

\* C36: merging a remote update buffers nothing and arms no timeout: the
\* apply effect on the page a session holds leaves pending, the timer and the
\* armed timeouts as they are, so only local edits are buffered: every
\* buffered update and every call in flight carries operations of the
\* session's own Y.Doc only, and nothing received from the log is sent again.
C36_RemoteUpdatesAreNotBuffered ==
    \A s \in Sessions :
        sessions[s].mounted =>
          LET sess == sessions[s]
              after == ApplyEffect(sess, clientID(s), Page(s))
          IN  /\ after.pending = sess.pending
              /\ after.timer = sess.timer
              /\ after.armed = sess.armed
              /\ \A i \in 1..Len(sess.pending) :
                   \A o \in sess.pending[i] : o[1] = clientID(s)
              /\ \A i \in 1..Len(calls) :
                   calls[i].session = s =>
                     \A o \in calls[i].update : o[1] = calls[i].clientId

\* An editable session with no timeout armed holds a page with another
\* client's update that its Y.Doc does not have yet
C36_Witness ==
    \E s \in Sessions :
        /\ sessions[s].mounted
        /\ sessions[s].editable
        /\ ~sessions[s].timer
        /\ \E u \in Range(Page(s)) :
             /\ u.clientId # clientID(s)
             /\ ~(u.update \subseteq sessions[s].ydoc)

(***************************************************************************)
(* SpecSyncFair: the sessions when every append succeeds: bob is only ever  *)
(* made an editor and no call is lost.  A timer that is armed fires, a call *)
(* in flight is run and settles, and a page that is ready is delivered;     *)
(* nothing obliges a user to type.                                          *)
(***************************************************************************)
FDoMembersAdd ==
    /\ \E d \in DOMAIN documents :
         Commit(MembersAdd(documents[d].ownerId, d, "bob", "editor"))
    /\ UNCHANGED nonDbVars

NextSyncFair ==
    \/ SDoCreate
    \/ FDoMembersAdd
    \/ SDoMount
    \/ SDoLocalEdit
    \/ SDoTimerFire
    \/ SDoServerRun
    \/ SDoSettle
    \/ SDoReceive

SpecSyncFair ==
    /\ Init
    /\ [][NextSyncFair]_vars
    /\ WF_vars(SDoTimerFire)
    /\ WF_vars(SDoServerRun)
    /\ WF_vars(SDoSettle)
    /\ WF_vars(SDoReceive)

\* The operations contained in the updates stored in the log
LoggedOps == UNION {r.update : r \in UNION {Range(documentUpdates[d]) : d \in DocIds}}

\* The operations buffered in a session's pending
PendingOps(s) == mergeUpdates(sessions[s].pending)

\* C4: every local edit that enters an editable session's pendingOps is
\* eventually contained in a successfully appended update, when the session
\* is not torn down and appends succeed, including an edit that arrives
\* while a flush is in progress and whose timer fires during that flush,
\* without any further local edit.
C4_EveryLocalEditIsAppended ==
    \A s \in Sessions : \A k \in 1..MaxSeq :
        (<<clientID(s), k>> \in PendingOps(s)) ~> (<<clientID(s), k>> \in LoggedOps)

(***************************************************************************)
(* SpecPaging: the update log at the sizes of the page limits.  The first   *)
(* document starts with a log alice has already appended to, just short of  *)
(* nothing, of the default page of 128 or of the cap of 512, and grows from *)
(* there; bob may create a second document with a log of its own.           *)
(***************************************************************************)
\* The log lengths the first document starts from
LogSizes == {0, 127, 511}

\* The state after alice created the first document and appended n updates
InitPaging ==
    \E n \in LogSizes :
        /\ documents = [d \in {1} |->
                          [_id |-> 1, title |-> "Untitled", ownerId |-> "alice",
                           visibility |-> "private", updatedAt |-> 0, lastSeq |-> n]]
        /\ nextDocId = 2
        /\ documentMembers = {}
        /\ documentUpdates =
             [d \in DocIds |->
                IF d = 1
                THEN [i \in 1..n |-> [docId |-> 1, seq |-> i, update |-> {1},
                                      userId |-> "alice", clientId |-> 11]]
                ELSE <<>>]
        /\ documentPresence = <<>>
        /\ now = 0
        /\ calls = <<>>
        /\ returned = [d \in DocIds |-> <<>>]
        /\ sessions = [s \in Sessions |-> Unmounted]

\* The model's bound on an append: at most MaxSeq updates past a starting length
CanAppendPaging(caller, docId) ==
    SubmitUpdateCode(caller, docId) = Ok =>
        \E n \in LogSizes : n < NextSeq(docId) /\ NextSeq(docId) <= n + MaxSeq

GDoCreate ==
    /\ \E v \in Visibilities : CanCreate /\ Commit(Create("bob", "Untitled", v))
    /\ UNCHANGED nonDbVars
GDoSetVisibility ==
    /\ \E v \in Visibilities : Commit(SetVisibility("alice", 1, v))
    /\ UNCHANGED nonDbVars
GDoMembersAdd ==
    /\ \E r \in Roles : Commit(MembersAdd("alice", 1, "bob", r))
    /\ UNCHANGED nonDbVars
GDoSubmitUpdate ==
    /\ \E u \in Users, d \in DOMAIN documents :
         CanAppendPaging(u, d) /\ Commit(SubmitUpdate(u, d, {1}, 11))
    /\ UNCHANGED nonDbVars

NextPaging ==
    \/ GDoCreate
    \/ GDoSetVisibility
    \/ GDoMembersAdd
    \/ GDoSubmitUpdate

SpecPaging == InitPaging /\ [][NextPaging]_vars

\* The calls of listUpdates made on a document: afterSeq and limit given or not
ListArgs(docId) ==
    {[docId |-> docId]}
    \cup {[docId |-> docId, afterSeq |-> a] : a \in {1, 128}}
    \cup {[docId |-> docId, limit |-> l] : l \in {1, 600}}
    \cup {[docId |-> docId, afterSeq |-> a, limit |-> l] : a \in {1, 128}, l \in {1, 600}}

\* afterSeq and limit as the specification reads a call: defaults 0 and 128
AfterSeqOf(args) == IF "afterSeq" \in DOMAIN args THEN args.afterSeq ELSE 0
LimitOf(args) == IF "limit" \in DOMAIN args THEN args.limit ELSE 128

\* C11: for a caller who can view the document, listUpdates returns exactly
\* the updates of that document with seq > afterSeq, in ascending seq order,
\* truncated to the first min(limit, 512) of them, with afterSeq defaulting
\* to 0 and limit to 128; no update of another document is returned.
C11_ListUpdatesIsThePageAfterSeq ==
    \A d \in DOMAIN documents : \A u \in Callers :
        canView(documents[d], u) =>
            \A args \in ListArgs(d) :
                LET R == listUpdatesArgs(u, args)
                    after == {r \in Range(documentUpdates[d]) : r.seq > AfterSeqOf(args)}
                IN  /\ Len(R) = Min(Min(LimitOf(args), 512), Cardinality(after))
                    /\ Range(R) \subseteq after
                    /\ \A i \in 1..Len(R) : R[i].docId = d
                    /\ \A i \in 1..(Len(R) - 1) : R[i].seq < R[i + 1].seq
                    /\ \A r \in after \ Range(R) : r.seq > R[Len(R)].seq

\* C11's case: a log of 513 updates, of which a call with limit 600 gets the
\* first 512, a call without limit the first 128 and a call after seq 128
\* with limit 1 the update 129, while another document has updates too.
C11_Witness ==
    /\ DOMAIN documents = {1, 2}
    /\ documents[1].lastSeq = 513
    /\ documents[2].lastSeq >= 1
    /\ Len(listUpdatesArgs("alice", [docId |-> 1, limit |-> 600])) = 512
    /\ Len(listUpdatesArgs("alice", [docId |-> 1])) = 128
    /\ listUpdatesArgs("alice", [docId |-> 1, afterSeq |-> 128, limit |-> 1])[1].seq = 129

\* The calls of listUpdates with a limit that is not positive
NonPositiveArgs(docId) == {[docId |-> docId, limit |-> l] : l \in {0, -1}}

\* C27: listUpdates called with a non-positive limit is rejected with an
\* InvalidArgument error: for every caller and document id, the call does not
\* return and does not fail in another way.
C27_NonPositiveLimitIsRejected ==
    \A u \in Callers : \A d \in DocIds : \A args \in NonPositiveArgs(d) :
        ListUpdatesOutcomes(u, args) = {"InvalidArgument"}

\* The caller is neither served by visibility nor owner nor member of the
\* existing document
LacksView(docId, caller) ==
    /\ DocExists(docId)
    /\ documents[docId].visibility = "private"
    /\ \/ caller = NoUser
       \/ /\ documents[docId].ownerId # caller
          /\ \A m \in documentMembers : ~(m.docId = docId /\ m.userId = caller)

\* What the four read operations answer a caller about a document id
Reads(caller, docId) ==
    [get |-> get(caller, docId),
     listUpdates |-> [args \in ListArgs(docId) |-> listUpdatesArgs(caller, args)],
     getSeq |-> getSeq(caller, docId),
     list |-> presenceList(caller, docId)]

\* The neutral answers: null, no updates, seq 0, no presence
NeutralReads(docId) ==
    [get |-> Null,
     listUpdates |-> [args \in ListArgs(docId) |-> <<>>],
     getSeq |-> [seq |-> 0],
     list |-> <<>>]

\* C12: the read operations answer instead of raising when the document is
\* missing or the caller lacks view access: get returns null, listUpdates an
\* empty sequence, getSeq seq 0 and presence.list an empty sequence, so a
\* caller without access to an existing private document is answered exactly
\* as for a document that does not exist.
C12_ReadsAreNeutralWithoutAccess ==
    \A u \in Callers : \A d \in DocIds :
        (~DocExists(d) \/ LacksView(d, u)) =>
            /\ get(u, d) = Null
            /\ \A args \in ListArgs(d) : listUpdatesArgs(u, args) = <<>>
            /\ getSeq(u, d) = [seq |-> 0]
            /\ presenceList(u, d) = <<>>
            /\ \A e \in DocIds \ DOMAIN documents :
                 /\ get(u, d) = get(u, e)
                 /\ getSeq(u, d) = getSeq(u, e)
                 /\ presenceList(u, d) = presenceList(u, e)
                 /\ \A args \in ListArgs(d) :
                      listUpdatesArgs(u, args) =
                        listUpdatesArgs(u, [args EXCEPT !.docId = e])

\* C12's case: a private document with updates and a fresh presence row, which
\* its owner is given, while a signed-in caller who is not a member and the
\* anonymous caller get the neutral answers, as for the missing document 2.
C12_Witness ==
    /\ DocExists(1)
    /\ ~DocExists(2)
    /\ documents[1].visibility = "private"
    /\ documents[1].lastSeq >= 1
    /\ Reads(documents[1].ownerId, 1).getSeq.seq >= 1
    /\ Len(Reads(documents[1].ownerId, 1).list) >= 1
    /\ \E u \in Users : LacksView(1, u) /\ Reads(u, 1) = NeutralReads(1)
    /\ Reads(NoUser, 1) = NeutralReads(1)
    /\ Reads(NoUser, 2).getSeq = [seq |-> 0]

\* The rows of a tables record that refer to a document id
RowsOf(db, docId) ==
    [updates |-> {r \in UNION {Range(db.documentUpdates[d]) : d \in DocIds} :
                    r.docId = docId},
     members |-> {m \in db.documentMembers : m.docId = docId},
     presence |-> {p \in Range(db.documentPresence) : p.docId = docId}]

NoRows == [updates |-> {}, members |-> {}, presence |-> {}]

\* C13: after the owner's remove of a document completes, the document row is
\* gone and no update, membership or presence row with its docId remains;
\* and for a document id that does not exist get returns null, listUpdates
\* and presence.list return empty and submitUpdate and heartbeat by a
\* signed-in caller raise NotFound.
C13_RemoveCascades ==
    /\ \A d \in DOMAIN documents :
         LET after == Remove(documents[d].ownerId, d) IN
         /\ d \notin DOMAIN after.documents
         /\ RowsOf(after, d) = NoRows
    /\ \A d \in DocIds \ DOMAIN documents :
         /\ RowsOf(Db, d) = NoRows
         /\ \A u \in Callers :
              /\ get(u, d) = Null
              /\ \A args \in ListArgs(d) : listUpdatesArgs(u, args) = <<>>
              /\ presenceList(u, d) = <<>>
         /\ \A u \in Users :
              /\ SubmitUpdateCode(u, d) = NotFound
              /\ HeartbeatCode(u, d) = NotFound
              /\ SubmitUpdate(u, d, {1}, 11) = Db
              /\ Heartbeat(u, d) = Db

\* C13's case: a document with updates, a member and presence rows, which its
\* owner's remove deletes together with the document.
C13_Witness ==
    \E d \in DOMAIN documents :
        /\ RowsOf(Db, d).updates # {}
        /\ RowsOf(Db, d).members # {}
        /\ Cardinality(RowsOf(Db, d).presence) = 2
        /\ RemoveCode(documents[d].ownerId, d) = Ok
        /\ RowsOf(Remove(documents[d].ownerId, d), d) = NoRows
        /\ DOMAIN Remove(documents[d].ownerId, d).documents = {}

\* C14: presence.list for a viewable document returns a presence row if and
\* only if now - updatedAt < TTL with TTL = 30 s, so a row aged exactly 30 s
\* is excluded, and returns the rows sorted by updatedAt descending.
C14_ListIsRowsYoungerThanTTL ==
    \A d \in DOMAIN documents : \A u \in Callers :
        canView(documents[d], u) =>
            LET R == presenceList(u, d) IN
            /\ Range(R) = FreshRows(d)
            /\ Len(R) = Cardinality(FreshRows(d))
            /\ \A i \in 1..(Len(R) - 1) : R[i].updatedAt >= R[i + 1].updatedAt

\* The presence rows of a document that are at least twice the timeout old
StaleRows(docId) ==
    {p \in Range(documentPresence) :
        p.docId = docId /\ now - p.updatedAt >= 2 * PRESENCE_TIMEOUT_MS}

\* C15: presence.cleanup called by the document's owner deletes exactly the
\* presence rows of that document with now - updatedAt >= 2 * TTL (60 s),
\* a row aged exactly 60 s included, and leaves every younger row and every
\* row of other documents in place.
C15_CleanupDeletesRowsAtTwiceTTL ==
    \A d \in DOMAIN documents :
        LET after == Cleanup(documents[d].ownerId, d) IN
        /\ Range(after.documentPresence) = Range(documentPresence) \ StaleRows(d)
        /\ after.documentPresence =
             SelectSeq(documentPresence, LAMBDA p : p \notin StaleRows(d))
        /\ [after EXCEPT !.documentPresence = documentPresence] = Db

\* The outcomes of the mutations other than the presence ones, for a caller, a
\* document id and a member
DocMutationCodes(caller, docId, userId) ==
    [updateTitle |-> UpdateTitleCode(caller, docId),
     setVisibility |-> SetVisibilityCode(caller, docId),
     remove |-> RemoveCode(caller, docId),
     submitUpdate |-> SubmitUpdateCode(caller, docId),
     membersAdd |-> MembersAddCode(caller, docId, userId),
     membersRemove |-> MembersRemoveCode(caller, docId),
     membersUpdateRole |-> MembersUpdateRoleCode(caller, docId, userId)]

\* The mutations only the document's owner may call
OwnerMutations ==
    {"updateTitle", "setVisibility", "remove",
     "membersAdd", "membersRemove", "membersUpdateRole"}

\* C16: every mutation raises an error when the caller is unauthenticated,
\* lacks the required permission, or the referenced document is absent; none
\* returns successfully in those cases, in particular not presence.cleanup
\* by a non-owner or on a missing document and not presence.leave on a
\* missing document.
C16_MutationsRaiseOnFailure ==
    /\ CreateCode(NoUser) # Ok
    /\ \A u \in Callers, d \in DocIds, m \in Users :
         LET codes == DocMutationCodes(u, d, m)
             absent == ~DocExists(d)
             notOwner == absent \/ documents[d].ownerId # u
         IN  /\ (u = NoUser \/ absent) =>
                   /\ \A op \in DOMAIN codes : codes[op] # Ok
                   /\ HeartbeatCode(u, d) # Ok
                   /\ LeaveCode(u) # Ok
                   /\ CleanupCode(u) # Ok
             /\ notOwner =>
                   /\ \A op \in OwnerMutations : codes[op] # Ok
                   /\ CleanupCode(u) # Ok
             /\ (~absent /\ ~canEdit(documents[d], u)) => codes.submitUpdate # Ok
             /\ (~absent /\ ~canView(documents[d], u)) => HeartbeatCode(u, d) # Ok

(***************************************************************************)
(* SpecLastSeq: one document with its appends, its member and its presence  *)
(* rows as the clock advances, up to its removal.                           *)
(***************************************************************************)
NextLastSeq ==
    \/ PDoCreate
    \/ PDoMembersAdd
    \/ PDoRemove
    \/ PDoSubmitUpdate
    \/ PDoHeartbeat
    \/ PDoCleanup
    \/ PDoTick

SpecLastSeq == Init /\ [][NextLastSeq]_vars

\* lastSeq of every document of a tables record
LastSeqs(db) == [d \in DOMAIN db.documents |-> db.documents[d].lastSeq]

\* The tables after each call of a mutation that is not an append or a create
\* or remove of a document, by a caller on a document id
NonAppendResults(caller, docId) ==
    {UpdateTitle(caller, docId, t) : t \in Titles}
    \cup {SetVisibility(caller, docId, v) : v \in Visibilities}
    \cup {MembersAdd(caller, docId, m, r) : m \in Users, r \in Roles}
    \cup {MembersRemove(caller, docId, m) : m \in Users}
    \cup {MembersUpdateRole(caller, docId, m, r) : m \in Users, r \in Roles}
    \cup {Heartbeat(caller, docId), Leave(caller, docId), Cleanup(caller, docId)}

\* C17: a document's lastSeq is changed only by a successful submitUpdate:
\* create sets it to 0, and updateTitle, setVisibility, every membership
\* operation, every presence operation and every rejected submitUpdate leave
\* every lastSeq as it is; a successful submitUpdate raises the lastSeq of its
\* document by one and remove only takes its document away, so no step
\* lowers the lastSeq of a document that lives on.
C17_LastSeqChangedOnlyByAppend ==
    \A u \in Callers :
        /\ \A d \in DocIds :
             /\ \A after \in NonAppendResults(u, d) : LastSeqs(after) = LastSeqs(Db)
             /\ LET after == SubmitUpdate(u, d, {1}, 11) IN
                  LastSeqs(after) =
                     IF SubmitUpdateCode(u, d) = Ok
                     THEN [LastSeqs(Db) EXCEPT ![d] = @ + 1]
                     ELSE LastSeqs(Db)
             /\ LET after == Remove(u, d) IN
                  LastSeqs(after) =
                     [e \in DOMAIN after.documents |-> LastSeqs(Db)[e]]
        /\ \A v \in Visibilities :
             LET after == Create(u, "Untitled", v) IN
             \A e \in DOMAIN after.documents :
                 LastSeqs(after)[e] = IF DocExists(e) THEN LastSeqs(Db)[e] ELSE 0

\* C17's case: a document with lastSeq 2, a member and a presence row, whose
\* owner's updateTitle, setVisibility, members.remove and cleanup all take
\* effect and leave lastSeq at 2.
C17_Witness ==
    \E d \in DOMAIN documents :
        LET o == documents[d].ownerId IN
        /\ documents[d].lastSeq = 2
        /\ UpdateTitle(o, d, "Notes") # Db
        /\ LastSeqs(UpdateTitle(o, d, "Notes"))[d] = 2
        /\ \E v \in Visibilities : SetVisibility(o, d, v).documents[d].visibility
                                      # documents[d].visibility
        /\ \E m \in Users : MembersRemove(o, d, m) # Db
        /\ Cleanup(o, d) # Db

\* C20: there is at most one presence row per (docId, userId), and a
\* heartbeat for a pair that has a row returns that row's id, sets its
\* updatedAt to now and its name to the caller's, and leaves the number of
\* rows and every other row as they were.  Heartbeats are transactions, so
\* those of several sessions of one user run one after the other, in any
\* order and at any time.
C20_OnePresenceRowPerUser ==
    /\ \A i, j \in 1..Len(documentPresence) :
         (/\ documentPresence[i].docId = documentPresence[j].docId
          /\ documentPresence[i].userId = documentPresence[j].userId) => i = j
    /\ \A u \in Callers, d \in DocIds :
         (HeartbeatCode(u, d) = Ok /\ PresenceIndex(d, u) # 0) =>
             LET k == PresenceIndex(d, u)
                 after == Heartbeat(u, d).documentPresence
             IN  /\ HeartbeatReturn(u, d) = k
                 /\ Len(after) = Len(documentPresence)
                 /\ after[k].docId = d /\ after[k].userId = u
                 /\ after[k].updatedAt = now /\ after[k].name = UserName(u)
                 /\ \A i \in 1..Len(documentPresence) :
                      i # k => after[i] = documentPresence[i]

\* C20's case: two users are present on the document, the row inserted first
\* has since been refreshed by a later heartbeat of its user, and the clock
\* has advanced again, so that one more heartbeat of that user changes it.
C20_Witness ==
    /\ Len(documentPresence) = 2
    /\ documentPresence[1].updatedAt > documentPresence[2].updatedAt
    /\ now > documentPresence[1].updatedAt
    /\ HeartbeatCode(documentPresence[1].userId, documentPresence[1].docId) = Ok

\* C21: heartbeat requires authentication and view permission: the anonymous
\* caller gets Unauthenticated, a signed-in caller on a document id that names
\* no document gets NotFound, a signed-in caller who cannot view the document
\* gets Forbidden, everyone else succeeds, and a refused heartbeat leaves
\* every presence row, and every other table, as it was.
C21_HeartbeatRefusalsChangeNothing ==
    \A u \in Callers : \A d \in DocIds :
        /\ HeartbeatCode(u, d) =
              IF u = NoUser THEN Unauthenticated
              ELSE IF d \notin DOMAIN documents THEN NotFound
              ELSE IF LacksView(d, u) THEN Forbidden
              ELSE Ok
        /\ HeartbeatCode(u, d) # Ok =>
              /\ Heartbeat(u, d).documentPresence = documentPresence
              /\ Heartbeat(u, d) = Db
              /\ HeartbeatReturn(u, d) = Null

\* C21's case: a user with a presence row on a document that has since been
\* made private, whose heartbeat is now Forbidden at a later time and leaves
\* the old row, while the anonymous caller is Unauthenticated and a heartbeat
\* on the missing document 2 is NotFound.
C21_Witness ==
    \E i \in 1..Len(documentPresence) :
        LET p == documentPresence[i] IN
        /\ DocExists(p.docId)
        /\ now > p.updatedAt
        /\ HeartbeatCode(p.userId, p.docId) = Forbidden
        /\ HeartbeatCode(NoUser, p.docId) = Unauthenticated
        /\ HeartbeatCode(p.userId, 2) = NotFound
        /\ Heartbeat(documents[p.docId].ownerId, p.docId) # Db

(***************************************************************************)
(* SpecLeave: two documents and the presence rows of their visitors, who    *)
(* arrive with heartbeat and go with leave while the clock advances.        *)
(***************************************************************************)
NextLeave ==
    \/ DoCreate
    \/ DoSetVisibility
    \/ PDoHeartbeat
    \/ PDoLeave
    \/ DoTick

SpecLeave == Init /\ [][NextLeave]_vars

\* The presence rows that are not the caller's row on the document
OtherRows(rows, caller, docId) ==
    SelectSeq(rows, LAMBDA p : ~(p.docId = docId /\ p.userId = caller))

\* C22: leave is idempotent and local to the caller: after a leave by a
\* signed-in caller the caller has no presence row on the document, the rows
\* of other users and of other documents are all still there, unchanged and
\* in their order, and no other table has changed; and a leave by a caller
\* who has no row on the document, as after a first leave, changes nothing.
C22_LeaveIsIdempotentAndLocal ==
    \A u \in Users : \A d \in DocIds :
        LET after == Leave(u, d) IN
        /\ \A i \in 1..Len(after.documentPresence) :
             ~(/\ after.documentPresence[i].docId = d
               /\ after.documentPresence[i].userId = u)
        /\ after.documentPresence = OtherRows(documentPresence, u, d)
        /\ \A i \in 1..Len(documentPresence) :
             (documentPresence[i].docId # d \/ documentPresence[i].userId # u) =>
                 \E j \in 1..Len(after.documentPresence) :
                     after.documentPresence[j] = documentPresence[i]
        /\ after = [Db EXCEPT !.documentPresence = after.documentPresence]
        /\ PresenceIndex(d, u) = 0 => after = Db

\* C22's case: a user present on both documents next to another user, whose
\* leave of one document takes one row away and leaves three.
C22_Witness ==
    \E u \in Users :
        /\ Len(documentPresence) = 4
        /\ PresenceIndex(1, u) # 0
        /\ PresenceIndex(2, u) # 0
        /\ Len(Leave(u, 1).documentPresence) = 3
        /\ \E i \in 1..3 : /\ Leave(u, 1).documentPresence[i].userId = u
                           /\ Leave(u, 1).documentPresence[i].docId = 2

\* C23: no membership row has the userId of its document's owner: members.add
\* of the owner is refused with the 400 error, for either role, and changes
\* nothing.
C23_OwnerIsNeverAMember ==
    /\ \A m \in documentMembers :
         /\ DocExists(m.docId)
         /\ m.userId # documents[m.docId].ownerId
    /\ \A d \in DOMAIN documents : \A r \in Roles :
         LET o == documents[d].ownerId IN
         /\ MembersAddCode(o, d, o) = BadRequest
         /\ MembersAdd(o, d, o, r) = Db
         /\ MembersAddReturn(o, d, o, r) = Null

\* C23's case: two documents of different owners, each owner a member of the
\* other's document and refused as a member of their own.
C23_Witness ==
    /\ DOMAIN documents = {1, 2}
    /\ documents[1].ownerId # documents[2].ownerId
    /\ \E m \in documentMembers : m.docId = 1 /\ m.userId = documents[2].ownerId
    /\ \E m \in documentMembers : m.docId = 2 /\ m.userId = documents[1].ownerId
    /\ MembersAddCode(documents[1].ownerId, 1, documents[1].ownerId) = BadRequest

\* C24: there is at most one membership row per (docId, userId): members.add
\* by the owner for a user who is a member already raises no error, inserts
\* no row, sets the role of the existing row to the role asked for, returns
\* that row, and leaves every other row and table as it was.
C24_OneMembershipRowPerUser ==
    /\ \A m, n \in documentMembers :
         (m.docId = n.docId /\ m.userId = n.userId) => m = n
    /\ \A d \in DOMAIN documents : \A u \in Users : \A r \in Roles :
         getMemberRole(d, u) # NoRole =>
             LET o == documents[d].ownerId
                 after == MembersAdd(o, d, u, r)
                 others == {m \in documentMembers : ~(m.docId = d /\ m.userId = u)}
                 row == [docId |-> d, userId |-> u, role |-> r]
             IN  /\ MembersAddCode(o, d, u) = Ok
                 /\ Cardinality(after.documentMembers) = Cardinality(documentMembers)
                 /\ after.documentMembers = others \cup {row}
                 /\ MembersAddReturn(o, d, u, r) = row
                 /\ after = [Db EXCEPT !.documentMembers = after.documentMembers]

\* C24's case: a user who is a viewer of one document and an editor of the
\* other, for whom a members.add with the other role changes the role.
C24_Witness ==
    \E u \in Users :
        /\ DOMAIN documents = {1, 2}
        /\ getMemberRole(1, u) = "viewer"
        /\ MembersAdd(documents[1].ownerId, 1, u, "editor") # Db
        /\ getMemberRole(2, u) = "editor"

\* C25: updateTitle, setVisibility, remove and members.list, add, remove and
\* updateRole succeed only for the document's owner: every other signed-in
\* caller, an editor included, gets Forbidden from each of them, whatever the
\* other arguments, and the document, its memberships, its updates and its
\* presence rows are as before; the owner's calls are not Forbidden.
C25_OwnerOnlyOperations ==
    \A d \in DOMAIN documents : \A u \in Users :
        IF u # documents[d].ownerId
        THEN /\ MembersListCode(u, d) = Forbidden
             /\ membersList(u, d) = Null
             /\ Remove(u, d) = Db
             /\ \A t \in Titles : UpdateTitle(u, d, t) = Db
             /\ \A v \in Visibilities : SetVisibility(u, d, v) = Db
             /\ \A m \in Users :
                  /\ \A op \in OwnerMutations : DocMutationCodes(u, d, m)[op] = Forbidden
                  /\ MembersRemove(u, d, m) = Db
                  /\ \A r \in Roles :
                       /\ MembersAdd(u, d, m, r) = Db
                       /\ MembersUpdateRole(u, d, m, r) = Db
        ELSE /\ MembersListCode(u, d) = Ok
             /\ membersList(u, d) = {m \in documentMembers : m.docId = d}
             /\ \A m \in Users :
                  \A op \in OwnerMutations : DocMutationCodes(u, d, m)[op] # Forbidden
             /\ \A op \in {"updateTitle", "setVisibility", "remove", "membersRemove"} :
                  DocMutationCodes(u, d, u)[op] = Ok

\* C25's case: a private document with an update, whose editor has a presence
\* row and is refused by the owner-only operations while submitUpdate accepts
\* the editor.
C25_Witness ==
    \E d \in DOMAIN documents : \E u \in Users :
        /\ documents[d].visibility = "private"
        /\ getMemberRole(d, u) = "editor"
        /\ PresenceIndex(d, u) # 0
        /\ Len(documentUpdates[d]) >= 1
        /\ SubmitUpdateCode(u, d) = Ok
        /\ UpdateTitleCode(u, d) = Forbidden
        /\ MembersUpdateRoleCode(u, d, u) = Forbidden
        /\ Remove(documents[d].ownerId, d) # Db

(***************************************************************************)
(* SpecList: two documents whose titles, visibility and members change as   *)
(* the clock advances, up to their removal.                                 *)
(***************************************************************************)
TDoUpdateTitle ==
    /\ \E u \in Callers, d \in DocIds, t \in Titles : Commit(UpdateTitle(u, d, t))
    /\ UNCHANGED nonDbVars

NextList ==
    \/ DoCreate
    \/ TDoUpdateTitle
    \/ DoSetVisibility
    \/ DoRemove
    \/ DoMembersAdd
    \/ DoMembersRemove
    \/ DoTick

SpecList == Init /\ [][NextList]_vars

\* The search queries tried: none or blank, and a word
SearchQueries == {""} \cup Titles

\* The ids listed by a result of list
ListedIds(result) == {result[i]._id : i \in 1..Len(result)}

\* C26: list without a search query returns exactly the documents the caller
\* can view (the public ones and, for a signed-in caller, the ones owned and
\* the ones with a membership), each once, sorted by updatedAt descending;
\* and with or without a search query it returns no private document the
\* caller cannot view.
C26_ListIsTheViewableDocuments ==
    \A u \in Callers :
        /\ LET result == docsList(u, "") IN
             /\ ListedIds(result) =
                   {d \in DOMAIN documents :
                       \/ documents[d].visibility = "public"
                       \/ /\ u # NoUser
                          /\ \/ documents[d].ownerId = u
                             \/ \E m \in documentMembers : m.docId = d /\ m.userId = u}
             /\ Len(result) = Cardinality(ListedIds(result))
             /\ \A i, j \in 1..Len(result) :
                  i < j => result[i].updatedAt >= result[j].updatedAt
             /\ \A i \in 1..Len(result) :
                  /\ result[i].title = documents[result[i]._id].title
                  /\ result[i].updatedAt = documents[result[i]._id].updatedAt
        /\ \A q \in SearchQueries :
             \A d \in ListedIds(docsList(u, q)) : ~LacksView(d, u)

\* C26's case: a signed-in caller who owns the public document 1 and is a
\* member of the private document 2, updated later: list returns document 2
\* before document 1, each once, while the anonymous caller is given document
\* 1 only, also when searching for the title of document 2.
C26_Witness ==
    \E u \in Users :
        /\ DOMAIN documents = {1, 2}
        /\ documents[1].ownerId = u /\ documents[1].visibility = "public"
        /\ documents[2].ownerId # u /\ documents[2].visibility = "private"
        /\ getMemberRole(2, u) # NoRole
        /\ documents[2].updatedAt > documents[1].updatedAt
        /\ Len(docsList(u, "")) = 2
        /\ docsList(u, "")[1]._id = 2
        /\ ListedIds(docsList(NoUser, "")) = {1}
        /\ SearchTitle(documents[2].title)[Len(SearchTitle(documents[2].title))] = 2
        /\ 2 \notin ListedIds(docsList(NoUser, documents[2].title))

\* The rows of a tables record that refer to a document that is not in it
Orphans(db) ==
    {<<"member", m>> : m \in {r \in db.documentMembers : r.docId \notin DOMAIN db.documents}}
    \cup {<<"update", d>> : d \in {e \in DocIds : db.documentUpdates[e] # <<>>
                                                  /\ e \notin DOMAIN db.documents}}
    \cup {<<"update", r>> : r \in UNION {{db.documentUpdates[d][i] :
                                            i \in {j \in 1..Len(db.documentUpdates[d]) :
                                                     db.documentUpdates[d][j].docId # d}}
                                         : d \in DocIds}}
    \cup {<<"presence", db.documentPresence[i]>> :
            i \in {j \in 1..Len(db.documentPresence) :
                     db.documentPresence[j].docId \notin DOMAIN db.documents}}

\* C32: referential integrity: every update, membership and presence row
\* refers to a document that exists, in the tables as they are and in the
\* tables any remove would leave, and submitUpdate, heartbeat and members.add
\* on a document that does not exist are refused with NotFound and write
\* nothing, so no order of these calls leaves an orphan row.
C32_NoOrphanRows ==
    /\ Orphans(Db) = {}
    /\ \A u \in Callers, d \in DocIds :
         /\ Orphans(Remove(u, d)) = {}
         /\ (u # NoUser /\ ~DocExists(d)) =>
              /\ SubmitUpdateCode(u, d) = NotFound
              /\ SubmitUpdate(u, d, {1}, 11) = Db
              /\ HeartbeatCode(u, d) = NotFound
              /\ Heartbeat(u, d) = Db
              /\ \A m \in Users, r \in Roles :
                   /\ MembersAddCode(u, d, m) = NotFound
                   /\ MembersAdd(u, d, m, r) = Db

\* A document with an update, a member and a presence row, which its owner
\* can remove
C32_Witness ==
    /\ DocExists(1)
    /\ documentUpdates[1] # <<>>
    /\ \E m \in documentMembers : m.docId = 1
    /\ \E i \in 1..Len(documentPresence) : documentPresence[i].docId = 1
    /\ Remove(documents[1].ownerId, 1).documents = <<>>

(***************************************************************************)
(* SpecRevoke: one document whose owner shares it, changes roles, removes  *)
(* members and changes its visibility while every caller appends and sends *)
(* heartbeats.                                                             *)
(***************************************************************************)
VDoCreate ==
    /\ nextDocId = 1
    /\ DoCreate

NextRevoke ==
    \/ VDoCreate
    \/ DoSetVisibility
    \/ DoMembersAdd
    \/ DoMembersRemove
    \/ DoMembersUpdateRole
    \/ DoSubmitUpdate
    \/ PDoHeartbeat
    \/ DoTick

SpecRevoke == Init /\ [][NextRevoke]_vars

\* A signed-in user who is neither the owner nor an editor of the document
NotEditor(u, d) ==
    /\ u # NoUser
    /\ documents[d].ownerId # u
    /\ getMemberRole(d, u) # "editor"

\* A caller who is neither the owner nor a member of the document
Outsider(c, d) ==
    c = NoUser \/ (documents[d].ownerId # c /\ getMemberRole(d, c) = NoRole)

\* The read operations give the caller their neutral empty results
ReadsNothing(c, d) ==
    /\ listUpdates(c, d, 0, 128) = <<>>
    /\ getSeq(c, d) = [seq |-> 0]
    /\ get(c, d) = Null
    /\ presenceList(c, d) = <<>>

\* C33: access checks read the current records on every call.  In every
\* state a signed-in user who is neither owner nor editor of a document is
\* refused by submitUpdate with Forbidden and nothing is written, and on a
\* private document a caller who is neither owner nor member gets the empty
\* results of listUpdates, getSeq, get and presence.list; in particular the
\* state right after a step that takes the editor role from a user or makes
\* the document private already answers so.
C33_RevocationIsImmediate ==
    /\ [](\A d \in DOMAIN documents :
            /\ \A u \in Users :
                 NotEditor(u, d) =>
                   /\ SubmitUpdateCode(u, d) = Forbidden
                   /\ SubmitUpdate(u, d, {1}, 11) = Db
            /\ \A c \in Callers :
                 (documents[d].visibility = "private" /\ Outsider(c, d)) =>
                   ReadsNothing(c, d))
    /\ [][\A d \in DOMAIN documents :
            d \in DOMAIN documents' =>
              /\ \A u \in Users :
                   (getMemberRole(d, u) = "editor" /\ getMemberRole(d, u)' # "editor") =>
                     /\ SubmitUpdateCode(u, d)' = Forbidden
                     /\ SubmitUpdate(u, d, {1}, 11)' = Db'
              /\ \A c \in Callers :
                   (documents[d].visibility = "public"
                    /\ documents'[d].visibility = "private" /\ Outsider(c, d)') =>
                     ReadsNothing(c, d)']_vars

\* A user who appended as an editor is no editor any more, and a private
\* document has the updates and the fresh presence row of a caller who is now
\* an outsider
C33_Witness ==
    /\ DocExists(1)
    /\ documents[1].visibility = "private"
    /\ \E u, w \in Users :
         /\ NotEditor(u, 1)
         /\ \E i \in 1..Len(documentUpdates[1]) : documentUpdates[1][i].userId = u
         /\ Outsider(w, 1)
         /\ \E i \in 1..Len(documentPresence) :
              /\ documentPresence[i].userId = w
              /\ now - documentPresence[i].updatedAt < PRESENCE_TIMEOUT_MS

\* The clientId arguments tried
ClientIds == {11, 12}

\* C38: every update row has as its author the authenticated caller of the
\* submitUpdate that wrote it, whatever clientId the client sent, and that
\* caller passed canEdit on the document in the step that assigned the seq: a
\* call by a caller who cannot edit writes nothing, a call by one who can
\* appends exactly one row with userId = caller and seq = lastSeq + 1, and in
\* every step that adds a row the row's author is the owner or an editor of
\* the document in the state the step starts from.
C38_AuthorIsTheCallerWhoCanEdit ==
    /\ [](\A u \in Callers, d \in DocIds, cid \in ClientIds :
            IF u # NoUser /\ DocExists(d) /\ canEdit(documents[d], u)
            THEN \/ ~CanAppend(u, d)
                 \/ SubmitUpdate(u, d, {1}, cid).documentUpdates[d] =
                      Append(documentUpdates[d],
                             [docId |-> d, seq |-> documents[d].lastSeq + 1,
                              update |-> {1}, userId |-> u, clientId |-> cid])
            ELSE SubmitUpdate(u, d, {1}, cid) = Db)
    /\ [][\A d \in DocIds :
            Len(documentUpdates'[d]) > Len(documentUpdates[d]) =>
              /\ Len(documentUpdates'[d]) = Len(documentUpdates[d]) + 1
              /\ DocExists(d)
              /\ LET row == documentUpdates'[d][Len(documentUpdates'[d])] IN
                   /\ row.userId # NoUser
                   /\ canEdit(documents[d], row.userId)
                   /\ row.seq = documents[d].lastSeq + 1
                   /\ documents'[d].lastSeq = row.seq]_vars

\* A row written by a member who was an editor, and who is none any more
C38_Witness ==
    /\ DocExists(1)
    /\ \E i \in 1..Len(documentUpdates[1]) :
         LET u == documentUpdates[1][i].userId IN
         /\ u # documents[1].ownerId
         /\ ~canEdit(documents[1], u)

(***************************************************************************)
(* SpecAccess: canView and canEdit on a document of any owner and          *)
(* visibility with any membership table that has at most one row per       *)
(* user, the owner's included; from there the owner's mutations run.       *)
(***************************************************************************)
\* The membership tables of document 1 with at most one row per user
MemberTables ==
    {rows \in SUBSET [docId : {1}, userId : Users, role : Roles] :
        \A m, n \in rows : m.userId = n.userId => m = n}

InitAccess ==
    /\ \E o \in Users, v \in Visibilities :
         documents = [d \in {1} |->
                        [_id |-> 1, title |-> "Untitled", ownerId |-> o,
                         visibility |-> v, updatedAt |-> 0, lastSeq |-> 0]]
    /\ nextDocId = 2
    /\ documentMembers \in MemberTables
    /\ documentUpdates = [d \in DocIds |-> <<>>]
    /\ documentPresence = <<>>
    /\ now = 0
    /\ calls = <<>>
    /\ returned = [d \in DocIds |-> <<>>]
    /\ sessions = [s \in Sessions |-> Unmounted]

NextAccess ==
    \/ DoSetVisibility
    \/ DoMembersAdd
    \/ DoMembersRemove
    \/ DoMembersUpdateRole
    \/ DoSubmitUpdate
    \/ DoTick

SpecAccess == InitAccess /\ [][NextAccess]_vars

\* C39: for every document, every caller, the unauthenticated one included,
\* and every membership table, canEdit implies canView: whoever may submit
\* updates to a document may list them.
C39_CanEditImpliesCanView ==
    \A d \in DOMAIN documents, u \in Callers :
        canEdit(documents[d], u) => canView(documents[d], u)

\* A private document whose owner also has a viewer row, with an editor who
\* is not the owner
C39_Witness ==
    /\ documents[1].visibility = "private"
    /\ getMemberRole(1, documents[1].ownerId) = "viewer"
    /\ \E u \in Users :
         /\ u # documents[1].ownerId
         /\ getMemberRole(1, u) = "editor"
         /\ canEdit(documents[1], u)

(***************************************************************************)
(* SpecLog: the life of one document's update log.  Every mutation of       *)
(* docs.ts, members.ts and collab.ts is called by every caller, with every  *)
(* argument, on the first document created and on an id that names none,    *)
(* while the clock advances.                                                *)
(***************************************************************************)
LDoCreate ==
    /\ nextDocId = 1
    /\ DoCreate

NextLog ==
    \/ LDoCreate
    \/ DoUpdateTitle
    \/ DoSetVisibility
    \/ DoRemove
    \/ DoMembersAdd
    \/ DoMembersRemove
    \/ DoMembersUpdateRole
    \/ DoSubmitUpdate
    \/ DoTick

SpecLog == Init /\ [][NextLog]_vars

\* C18: once an update row is written, its docId, seq, payload, author and
\* clientId never change and the row is deleted by nothing but the remove of
\* its document: in every step, every row of a document that lives on is
\* still in the table unchanged, and what listUpdates returned to a caller
\* before the step it returns again after it, row for row, if the caller
\* can still view the document.
C18_UpdatesAreImmutable ==
    [][dbVars' # dbVars =>
         \A d \in DOMAIN documents \cap DOMAIN documents' :
             /\ Len(documentUpdates'[d]) >= Len(documentUpdates[d])
             /\ SubSeq(documentUpdates'[d], 1, Len(documentUpdates[d])) =
                    documentUpdates[d]
             /\ \A u \in Callers :
                  (canView(documents[d], u) /\ canView(documents[d], u)') =>
                      LET before == listUpdatesArgs(u, [docId |-> d])
                          after == listUpdatesArgs(u, [docId |-> d])'
                      IN  /\ Len(after) >= Len(before)
                          /\ SubSeq(after, 1, Len(before)) = before]_vars

\* C18's case: a document that still holds, next to its owner's update, the
\* update of an editor who has since been removed from its members.
C18_Witness ==
    \E d \in DOMAIN documents :
        /\ Len(documentUpdates[d]) = 2
        /\ \E i \in 1..2 :
             /\ documentUpdates[d][i].userId # documents[d].ownerId
             /\ getMemberRole(d, documentUpdates[d][i].userId) = NoRole
        /\ \E i \in 1..2 : documentUpdates[d][i].userId = documents[d].ownerId

(***************************************************************************)
(* SpecRender: SpecSync with the editors rendered again whenever the edit   *)
(* permission of their user changes.                                        *)
(***************************************************************************)
RDoRerender == \E s \in Sessions : Rerender(s)

NextRender ==
    \/ SDoCreate
    \/ SDoMembersAdd
    \/ SDoMount
    \/ SDoLocalEdit
    \/ SDoTimerFire
    \/ SDoServerRun
    \/ SDoNetFail
    \/ SDoSettle
    \/ SDoReceive
    \/ RDoRerender

SpecRender == Init /\ [][NextRender]_vars

\* The submitUpdate calls a session has in flight
CallsOf(s) == {i \in 1..Len(calls) : calls[i].session = s}

\* C19: a read-only session (editable = false) never buffers local edits,
\* never arms the debounce timer and never calls submitUpdate: after every
\* step, a mounted editor that is not editable has nothing pending, no timer
\* armed, no local operation of its own made in the step, and no more calls
\* in flight than before the step.
C19_ReadOnlySessionNeverSends ==
    [][\A s \in Sessions :
         (sessions'[s].mounted /\ ~sessions'[s].editable) =>
             /\ sessions'[s].pending = <<>>
             /\ ~sessions'[s].timer
             /\ Cardinality(CallsOf(s)') <= Cardinality(CallsOf(s))]_vars

\* The largest seq of a page of updates that is not empty
LargestSeq(updates) ==
    CHOOSE m \in {updates[i].seq : i \in 1..Len(updates)} :
        \A i \in 1..Len(updates) : updates[i].seq <= m

\* C28: when the apply effect has processed a delivered page, the watermark
\* is the maximum of the watermark before and the largest seq of the page;
\* the watermark of a mounted editor never exceeds lastSeq of its document,
\* and no step lowers it while the editor stays on its document.
C28_WatermarkIsLargestSeqSeen ==
    /\ [](\A s \in Sessions :
            sessions[s].mounted =>
                /\ sessions[s].afterSeq <= documents[sessions[s].docId].lastSeq
                /\ Page(s) # <<>> =>
                     ApplyUpdates(sessions[s], clientID(s), Page(s)).afterSeq =
                        Max(sessions[s].afterSeq, LargestSeq(Page(s))))
    /\ [][\A s \in Sessions :
            (/\ sessions[s].mounted
             /\ sessions'[s].mounted
             /\ sessions'[s].docId = sessions[s].docId) =>
                sessions'[s].afterSeq >= sessions[s].afterSeq]_vars

\* C28's case: one editor has processed a page of two updates, its own one
\* among them, and stands at watermark 2 = lastSeq, while the other has a
\* page of two still to process at watermark 0.
C28_Witness ==
    \E s, t \in Sessions :
        /\ sessions[s].mounted /\ sessions[t].mounted
        /\ sessions[s].afterSeq = 2
        /\ sessions[s].merged # {}
        /\ sessions[t].afterSeq = 0
        /\ Len(Page(t)) = 2
        /\ documents[sessions[s].docId].lastSeq = 2

\* C29: when a timeout fires while a flush is in progress, no call is issued
\* and what is pending stays pending; and a session never has more than one
\* submitUpdate call in flight, also across the final flush of the effect's
\* cleanup and across a re-run of the outbound effect.
C29_OneCallInFlightPerSession ==
    \A s \in Sessions :
        /\ (sessions[s].armed > 0 /\ sessions[s].isFlushing) =>
              LET fired == [sessions[s] EXCEPT !.timer = FALSE, !.armed = @ - 1] IN
              /\ ~FlushSends(fired)
              /\ flush(fired).pending = sessions[s].pending
        /\ Cardinality(CallsOf(s)) <= 1

\* C30: when a timeout fires with no flush in progress and updates pending,
\* the client issues one submitUpdate call whose payload is the merge of all
\* the updates pending, nothing is pending afterwards and isFlushing is set;
\* a step issues at most one call, and only when a timeout fires or the
\* effect is cleaned up, never when a call settles; and onUpdate sets a
\* timeout only when none is set, so that at most one is set at any time.
C30_TimerFireSendsOneMergedCall ==
    /\ [](\A s \in Sessions :
            LET sess == sessions[s]
                fired == [sess EXCEPT !.timer = FALSE, !.armed = @ - 1]
            IN  /\ sess.armed <= 1
                /\ sess.timer <=> sess.armed = 1
                /\ onUpdate(sess, {}).armed = 1
                /\ (sess.armed > 0 /\ ~sess.isFlushing /\ sess.pending # <<>>) =>
                      /\ FlushSends(fired)
                      /\ FlushCall(s, fired).update =
                            UNION {sess.pending[i] : i \in 1..Len(sess.pending)}
                      /\ FlushCall(s, fired).docId = sess.docId
                      /\ FlushCall(s, fired).clientId = clientID(s)
                      /\ flush(fired).pending = <<>>
                      /\ flush(fired).isFlushing)
    /\ [][Len(calls') > Len(calls) =>
            /\ Len(calls') = Len(calls) + 1
            /\ LET c == calls'[Len(calls')] IN
               /\ \/ sessions[c.session].armed > sessions'[c.session].armed
                  \/ sessions[c.session].editable # sessions'[c.session].editable
               /\ c.update = mergeUpdates(sessions[c.session].pending)
               /\ sessions'[c.session].pending = <<>>]_vars

\* C30's case: two local edits were buffered behind one timeout, the timeout
\* has fired, and the one call in flight carries both operations while
\* nothing is pending and the flush is in progress.
C30_Witness ==
    \E s \in Sessions :
        /\ sessions[s].isFlushing
        /\ sessions[s].pending = <<>>
        /\ sessions[s].armed = 0
        /\ Len(calls) = 1
        /\ calls[1].session = s
        /\ ~calls[1].stale
        /\ Cardinality(calls[1].update) = 2

(***************************************************************************)
(* SpecSwitch: alice's browser session on two documents of hers, the       *)
(* second of which bob edits too.  The route mounts the editor, renders it *)
(* with the other docId, back and forth, and unmounts it, while alice      *)
(* types once into each Y.Doc, the timeouts fire, her calls run and        *)
(* settle, and bob's client appends updates.                               *)
(***************************************************************************)
InitSwitch ==
    /\ documents = [d \in DocIds |->
                      [_id |-> d, title |-> "Untitled", ownerId |-> "alice",
                       visibility |-> "private", updatedAt |-> 0, lastSeq |-> 0]]
    /\ nextDocId = 3
    /\ documentMembers = [docId : {2}, userId : {"bob"}, role : {"editor"}]
    /\ documentUpdates = [d \in DocIds |-> <<>>]
    /\ documentPresence = <<>>
    /\ now = 0
    /\ calls = <<>>
    /\ returned = [d \in DocIds |-> <<>>]
    /\ sessions = [s \in Sessions |-> Unmounted]

\* The update bob's client sends next to a document: an operation of its own
\* Y.Doc
RemoteUpdate(docId) == {<<12, 100 * docId + NextSeq(docId)>>}

WDoMount == \E d \in DOMAIN documents : Mount("s1", d)
WDoSwitchDoc == \E d \in DOMAIN documents : SwitchDoc("s1", d)
WDoUnmount == Unmount("s1")
WDoLocalEdit ==
    /\ \A o \in sessions["s1"].ydoc : o[1] # clientID("s1")
    /\ LocalEdit("s1")
WDoTimerFire == TimerFire("s1")
WDoReceive == Receive("s1")
WDoRemoteSubmit ==
    /\ \E d \in DOMAIN documents :
         /\ CanAppend("bob", d)
         /\ Commit(SubmitUpdate("bob", d, RemoteUpdate(d), 12))
    /\ UNCHANGED nonDbVars

NextSwitch ==
    \/ WDoMount
    \/ WDoSwitchDoc
    \/ WDoUnmount
    \/ WDoLocalEdit
    \/ WDoTimerFire
    \/ SDoServerRun
    \/ SDoSettle
    \/ WDoReceive
    \/ WDoRemoteSubmit

SpecSwitch == InitSwitch /\ [][NextSwitch]_vars

\* The seqs of the updates of its document that a session has passed with
\* its watermark without giving them to Y.applyUpdate, its own aside
Unfetched(s) ==
    LET sess == sessions[s] IN
    {r.seq : r \in {q \in Range(documentUpdates[sess.docId]) :
                      /\ q.seq <= sess.afterSeq
                      /\ q.clientId # clientID(s)
                      /\ q.seq \notin sess.merged}}

\* C35: a session that switches to another docId starts from a fresh replica
\* and asks for the new document's updates from afterSeq = 0, never from the
\* watermark it reached on the previous document, so none of the new
\* document's updates is passed over.
C35_SwitchStartsFromSeqZero ==
    \A s \in Sessions :
        sessions[s].mounted =>
          /\ sessions[s].firstAfterSeq = 0
          /\ Unfetched(s) = {}

\* The Y.Docs a session has made, counted from 0
ReplicasOf(s) ==
    {n \in Generations :
        n < Len(sessions[s].replaced) + (IF sessions[s].mounted THEN 1 ELSE 0)}

\* The document the session was on with its n-th Y.Doc
ReplicaDoc(s, n) ==
    IF n < Len(sessions[s].replaced) THEN sessions[s].replaced[n + 1]
    ELSE sessions[s].docId

\* C37: a local edit made while the session is on a document is only ever
\* sent and appended to that document, with the clientId of the Y.Doc it was
\* made in, also when the session has switched to another document since:
\* every call in flight and every update row that carries an operation of one
\* of the session's Y.Docs is for the document of that Y.Doc and has its
\* clientId.
C37_EditsStayWithTheirDocument ==
    \A s \in Sessions, n \in Generations :
        n \in ReplicasOf(s) =>
          /\ \A d \in DocIds :
               \A r \in Range(documentUpdates[d]) :
                  (\E o \in r.update : o[1] = replicaID(s, n)) =>
                    /\ d = ReplicaDoc(s, n)
                    /\ r.clientId = replicaID(s, n)
          /\ \A i \in 1..Len(calls) :
               (\E o \in calls[i].update : o[1] = replicaID(s, n)) =>
                 /\ calls[i].docId = ReplicaDoc(s, n)
                 /\ calls[i].clientId = replicaID(s, n)

\* The session has left a document with an edit that its cleanup sent, the
\* call is in flight, and an edit on the document it is on now is buffered
\* with the timeout armed
C37_Witness ==
    \E s \in Sessions :
        /\ sessions[s].mounted
        /\ sessions[s].pending # <<>>
        /\ sessions[s].timer
        /\ \E i \in 1..Len(calls) :
             /\ calls[i].session = s
             /\ calls[i].stale
             /\ calls[i].status = "sent"
             /\ calls[i].docId # sessions[s].docId
             /\ \E m \in ReplicasOf(s) :
                  /\ m < Len(sessions[s].replaced)
                  /\ calls[i].clientId = replicaID(s, m)

(***************************************************************************)
(* SpecTeardown: alice's session on a document of hers when the route      *)
(* unmounts the editor and mounts it again, while she types, the timeouts  *)
(* fire, her calls run, fail and settle, and another client of hers that   *)
(* is no editor session appends bytes that are no Yjs update.              *)
(***************************************************************************)
UDoLocalEdit == LocalEdit("s1")
UDoSubmitBytes ==
    /\ \E d \in DOMAIN documents :
         /\ CanAppend(documents[d].ownerId, d)
         /\ Commit(SubmitUpdate(documents[d].ownerId, d, Undecodable, 99))
    /\ UNCHANGED nonDbVars

NextTeardown ==
    \/ SDoCreate
    \/ WDoMount
    \/ WDoUnmount
    \/ UDoLocalEdit
    \/ WDoTimerFire
    \/ SDoServerRun
    \/ SDoNetFail
    \/ SDoSettle
    \/ WDoReceive
    \/ UDoSubmitBytes

SpecTeardown == Init /\ [][NextTeardown]_vars

\* C31: when the editor is torn down, the armed timeout is cancelled and, if
\* updates are pending, the cleanup issues one final submitUpdate call with
\* all of them, also while an earlier call of the session is in flight.
C31_TeardownFlushesPending ==
    [][\A s \in Sessions :
         (sessions[s].mounted /\ ~sessions'[s].mounted) =>
           /\ sessions'[s].armed = 0
           /\ ~sessions'[s].timer
           /\ sessions[s].pending # <<>> =>
                /\ Len(calls') = Len(calls) + 1
                /\ calls'[Len(calls')].session = s
                /\ calls'[Len(calls')].docId = sessions[s].docId
                /\ calls'[Len(calls')].update = mergeUpdates(sessions[s].pending)]_vars

\* C34: no remote update is skipped: every update of a session's document
\* with seq <= the session's watermark and a clientId other than that of the
\* session's Y.Doc has been merged into the Y.Doc, also when Y.applyUpdate
\* throws on an update.
C34_NoRemoteUpdateIsSkipped ==
    \A s \in Sessions :
        sessions[s].mounted =>
          \A r \in Range(documentUpdates[sessions[s].docId]) :
              (r.seq <= sessions[s].afterSeq /\ r.clientId # clientID(s)) =>
                r.update \subseteq sessions[s].ydoc

(***************************************************************************)
(* Claims checked under Spec.                                              *)
(***************************************************************************)
\* C2: in every reachable state, for every existing document the seq values
\* of its update rows are exactly 1..lastSeq, with no duplicates (as many
\* rows as lastSeq), and every row filed under the document names it.
C2_SeqsAreOneToLastSeq ==
    \A d \in DOMAIN documents :
        /\ SeqsOf(d) = 1..documents[d].lastSeq
        /\ Len(documentUpdates[d]) = documents[d].lastSeq
        /\ \A i \in 1..Len(documentUpdates[d]) : documentUpdates[d][i].docId = d

\* C2's case: a document that took two appends, from two authors, next to a
\* membership row.
C2_Witness ==
    \E d \in DOMAIN documents :
        /\ documents[d].lastSeq = 2
        /\ documentUpdates[d][1].userId # documentUpdates[d][2].userId
        /\ documentMembers # {}

\* The membership row of (docId, userId) has this role
HasRole(docId, userId, role) ==
    \E m \in documentMembers : m.docId = docId /\ m.userId = userId /\ m.role = role

\* C7: submitUpdate by an authenticated caller who is neither owner nor
\* editor of an existing document throws Forbidden, by an unauthenticated
\* caller Unauthenticated, on a missing document NotFound; and a submitUpdate
\* that throws leaves every table as it was (no row inserted, lastSeq and
\* updatedAt unchanged).
C7_RejectedSubmitChangesNothing ==
    \A u \in Callers, d \in DocIds :
        /\ u = NoUser => SubmitUpdateCode(u, d) = Unauthenticated
        /\ (u # NoUser /\ ~DocExists(d)) => SubmitUpdateCode(u, d) = NotFound
        /\ (u # NoUser /\ DocExists(d) /\ documents[d].ownerId # u
              /\ ~HasRole(d, u, "editor"))
             => SubmitUpdateCode(u, d) = Forbidden
        /\ SubmitUpdateCode(u, d) # Ok => SubmitUpdate(u, d, {1}, 11) = Db

\* C7's case: a viewer and a non-member of a public document with updates,
\* at a time later than the document's updatedAt, are refused.
C7_Witness ==
    \E d \in DOMAIN documents, u \in Users :
        /\ documents[d].visibility = "public"
        /\ documents[d].lastSeq >= 1
        /\ documents[d].updatedAt < now
        /\ HasRole(d, u, "viewer")
        /\ SubmitUpdateCode(u, d) = Forbidden
        /\ SubmitUpdateCode(NoUser, d) = Unauthenticated
        /\ \E e \in DocIds : SubmitUpdateCode(u, e) = NotFound

\* C9: canView(doc, userId) is true exactly when the document is public, or
\* userId is non-null and is the owner or has a membership row (editor or
\* viewer) for the document.
C9_CanViewExact ==
    \A d \in DOMAIN documents, u \in Callers :
        canView(documents[d], u) <=>
            \/ documents[d].visibility = "public"
            \/ /\ u # NoUser
               /\ \/ u = documents[d].ownerId
                  \/ \E r \in Roles : HasRole(d, u, r)

\* C9's case: a private document a viewer-role member can view and the
\* anonymous caller cannot, next to a private document the same user cannot view.
C9_Witness ==
    \E d \in DOMAIN documents, e \in DOMAIN documents, u \in Users :
        /\ documents[d].visibility = "private"
        /\ HasRole(d, u, "viewer")
        /\ canView(documents[d], u)
        /\ ~canView(documents[d], NoUser)
        /\ documents[e].visibility = "private"
        /\ ~canView(documents[e], u)

\* C10: canEdit(doc, userId) is true exactly when userId is non-null and is
\* the owner or has the membership row with role editor; visibility never
\* grants edit.
C10_CanEditExact ==
    \A d \in DOMAIN documents, u \in Callers :
        canEdit(documents[d], u) <=>
            /\ u # NoUser
            /\ \/ u = documents[d].ownerId
               \/ HasRole(d, u, "editor")

\* C10's case: a public document its viewer cannot edit, and a public
\* document a non-member cannot edit, while its owner can.
C10_Witness ==
    \E d \in DOMAIN documents, e \in DOMAIN documents, u \in Users :
        /\ documents[d].visibility = "public"
        /\ HasRole(d, u, "viewer")
        /\ ~canEdit(documents[d], u)
        /\ documents[e].visibility = "public"
        /\ documents[e].ownerId # u
        /\ getMemberRole(e, u) = NoRole
        /\ ~canEdit(documents[e], u)
        /\ canEdit(documents[e], documents[e].ownerId)
====
